---- MODULE Spec2Model ----
(***************************************************************************)
(* A small-step model of the knusper interpreter (src/src/lib.rs).         *)
(*                                                                         *)
(* InterpreterState::run is a loop over a token slice; every nested run    *)
(* (function call, for body, if body, array literal, printed tuple) is a   *)
(* Rust call that finishes before its caller goes on.  The model keeps the *)
(* Rust call stack explicitly in `frames`: the last frame is the run that  *)
(* is executing, one step of the model is one iteration of its loop, and   *)
(* a frame whose tokens are used up returns into the frame beneath it.     *)
(***************************************************************************)
EXTENDS Integers, Sequences, FiniteSets, TLC

(***************************************************************************)
(* Value (lib.rs 45-59).  Every value is a record [t, v].  Text (names and *)
(* string contents) is a sequence of one-character strings.                *)
(***************************************************************************)
IntV(n)      == [t |-> "Int", v |-> n]
CharV(c)     == [t |-> "Char", v |-> c]
StringV(s)   == [t |-> "String", v |-> s]
IdentV(s)    == [t |-> "Ident", v |-> s]
ExtFnV(s)    == [t |-> "ExtFn", v |-> s]
OperationV(o) == [t |-> "Operation", v |-> o]
KeywordV(k)  == [t |-> "Keyword", v |-> k]
FnV(a, b)    == [t |-> "Fn", v |-> [args |-> a, body |-> b]]
TupleV(s)    == [t |-> "Tuple", v |-> s]
BlockV(s)    == [t |-> "Block", v |-> s]
ArrayV(s)    == [t |-> "Array", v |-> s]
NoneV        == [t |-> "None", v |-> 0]

\* Option<T>: None is the empty sequence, Some(x) the sequence <<x>>.
None    == <<>>
Some(x) == <<x>>
IsSome(o) == Len(o) = 1
Unwrap(o) == o[1]

(***************************************************************************)
(* i32 (lib.rs 47).  The model checker's integers are 32 bits wide too, so *)
(* nothing here may leave the i32 range on the way: wrapping results are   *)
(* computed on the four bytes of the two's complement representation.      *)
(***************************************************************************)
MaxI32 == 2147483647
MinI32 == -MaxI32 - 1

\* byte k (0 = least significant) of the two's complement representation
ByteOf(a, k) ==
    (CASE k = 0 -> a [] k = 1 -> a \div 256 [] k = 2 -> a \div 65536
       [] k = 3 -> a \div 16777216) % 256
FromBytes(b0, b1, b2, b3) ==
    (IF b3 >= 128 THEN b3 - 256 ELSE b3) * 16777216 + b2 * 65536 + b1 * 256 + b0

\* i32::wrapping_add
WrapAdd(a, b) ==
    LET s0 == ByteOf(a, 0) + ByteOf(b, 0)
        s1 == ByteOf(a, 1) + ByteOf(b, 1) + s0 \div 256
        s2 == ByteOf(a, 2) + ByteOf(b, 2) + s1 \div 256
        s3 == ByteOf(a, 3) + ByteOf(b, 3) + s2 \div 256
    IN  FromBytes(s0 % 256, s1 % 256, s2 % 256, s3 % 256)
\* i32::wrapping_sub: a + !b + 1
WrapSub(a, b) ==
    LET s0 == ByteOf(a, 0) + (255 - ByteOf(b, 0)) + 1
        s1 == ByteOf(a, 1) + (255 - ByteOf(b, 1)) + s0 \div 256
        s2 == ByteOf(a, 2) + (255 - ByteOf(b, 2)) + s1 \div 256
        s3 == ByteOf(a, 3) + (255 - ByteOf(b, 3)) + s2 \div 256
    IN  FromBytes(s0 % 256, s1 % 256, s2 % 256, s3 % 256)
\* i32::wrapping_mul
WrapMul(a, b) ==
    LET A(k) == ByteOf(a, k)
        B(k) == ByteOf(b, k)
        p0 == A(0) * B(0)
        p1 == A(0) * B(1) + A(1) * B(0) + p0 \div 256
        p2 == A(0) * B(2) + A(1) * B(1) + A(2) * B(0) + p1 \div 256
        p3 == A(0) * B(3) + A(1) * B(2) + A(2) * B(1) + A(3) * B(0) + p2 \div 256
    IN  FromBytes(p0 % 256, p1 % 256, p2 % 256, p3 % 256)

\* Rust's / and % on i32 truncate toward zero; \div floors.  Defined for
\* b # 0 and not (a = MinI32 and b = -1).
TruncDiv(a, b) ==
    IF b > 0
    THEN LET q == a \div b IN IF a % b # 0 /\ a < 0 THEN q + 1 ELSE q
    ELSE IF b = MinI32 THEN (IF a = MinI32 THEN 1 ELSE 0)
    ELSE LET q == a \div (-b) IN -(IF a % (-b) # 0 /\ a < 0 THEN q + 1 ELSE q)
TruncRem(a, b) == a - b * TruncDiv(a, b)

\* does the exact result of a op b leave the i32 range?
AddOverflows(a, b) == (b > 0 /\ a > MaxI32 - b) \/ (b < 0 /\ a < MinI32 - b)
SubOverflows(a, b) == (b < 0 /\ a > MaxI32 + b) \/ (b > 0 /\ a < MinI32 + b)
MulOverflows(a, b) ==
    /\ b # 0
    /\ \/ (a = MinI32 /\ b = -1)
       \/ TruncDiv(WrapMul(a, b), b) # a

(***************************************************************************)
(* The native-function table ext_fns (lib.rs 157) is supplied by the host. *)
(* The model installs one callback, `double`.                              *)
(***************************************************************************)
NameDouble == <<"d", "o", "u", "b", "l", "e">>
ExtFnNames == {NameDouble}
ExtCall(name, val) ==
    IF val.t = "Int" THEN IntV(WrapMul(val.v, 2)) ELSE NoneV

(***************************************************************************)
(* InterpreterState (lib.rs 151-158): stack, vars, globals, delims.        *)
(* vars and globals are functions from a set of names to values.           *)
(***************************************************************************)
EmptyMap == [n \in {} |-> NoneV]
Insert(m, k, val) == [n \in (DOMAIN m) \cup {k} |-> IF n = k THEN val ELSE m[n]]

NewState(vs, gs) == [stack |-> <<>>, vars |-> vs, globals |-> gs, delims |-> <<>>]

\* lib.rs 209-212
get_var(c, name) ==
    IF name \in DOMAIN c.vars THEN Some(c.vars[name])
    ELSE IF name \in DOMAIN c.globals THEN Some(c.globals[name])
    ELSE None

\* lib.rs 203-208; the caller checks CanSet first (the unwrap at 206)
CanSet(c, name) == name \in (DOMAIN c.vars) \cup (DOMAIN c.globals)
\* set_var looking in the global table first
set_var_GlobalFirst(c, name, val) ==
    IF name \in DOMAIN c.globals
    THEN [c EXCEPT !.globals = [c.globals EXCEPT ![name] = val]]
    ELSE [c EXCEPT !.vars = [c.vars EXCEPT ![name] = val]]
set_var(c, name, val) ==
    IF name \in DOMAIN c.vars
    THEN [c EXCEPT !.vars = [c.vars EXCEPT ![name] = val]]
    ELSE [c EXCEPT !.globals = [c.globals EXCEPT ![name] = val]]

\* lib.rs 200-202
add_var(c, name) == [c EXCEPT !.vars = Insert(c.vars, name, NoneV)]
\* lib.rs 197-199
add_global(c, name) == [c EXCEPT !.globals = Insert(c.globals, name, NoneV)]

\* lib.rs 179-181
push_value(c, val) == [c EXCEPT !.stack = Append(c.stack, val)]

\* lib.rs 182-184: the popped value (an Option) and the state without it
Top(c) == c.stack[Len(c.stack)]
Popped(c) == [c EXCEPT !.stack = SubSeq(c.stack, 1, Len(c.stack) - 1)]
pop_value(c) ==
    IF c.stack = <<>> THEN [r |-> None, c |-> c]
    ELSE [r |-> Some(Top(c)), c |-> Popped(c)]

\* lib.rs 187-195: what get_value makes of a popped value
Resolve(c, val) ==
    IF val.t = "Ident"
    THEN IF IsSome(get_var(c, val.v)) THEN Unwrap(get_var(c, val.v))
         ELSE IF val.v \in ExtFnNames THEN ExtFnV(val.v)
         ELSE val
    ELSE val

\* lib.rs 185-196
get_value(c) ==
    LET p == pop_value(c)
    IN  IF IsSome(p.r) THEN [r |-> Some(Resolve(c, Unwrap(p.r))), c |-> p.c]
        ELSE p

\* lib.rs 163-177: what get_int makes of a popped value
AsInt(c, val) ==
    IF val.t = "Int" THEN Some(val.v)
    ELSE IF val.t = "Ident"
         THEN IF IsSome(get_var(c, val.v)) /\ Unwrap(get_var(c, val.v)).t = "Int"
              THEN Some(Unwrap(get_var(c, val.v)).v)
              ELSE None
    ELSE None


\* lib.rs 161-178: get_int pops with unwrap (162), so an empty stack panics
\* inside it; otherwise it yields Some(i) or None
get_int(c) ==
    IF c.stack = <<>> THEN [panic |-> TRUE, r |-> None, c |-> c]
    ELSE [panic |-> FALSE, r |-> AsInt(c, Top(c)), c |-> Popped(c)]

(***************************************************************************)
(* One run in progress: its InterpreterState st, the slice `code` it       *)
(* iterates over, the position pc of the next token, and ret, which says   *)
(* what the caller does with the state when the run is over.               *)
(***************************************************************************)
RetK(k) == [k |-> k, name |-> NoneV, block |-> NoneV, rest |-> <<>>, nl |-> FALSE]
Frame(st, code, ret) == [st |-> st, code |-> code, pc |-> 1, ret |-> ret]

\* The outcome of executing one token in state c: a panic message (or ""),
\* the new state, the text written to stdout, and the nested run it starts.
UnwrapNone == "called Option::unwrap() on a None value"
Ok(c)           == [err |-> "", c |-> c, out |-> <<>>, call |-> <<>>]
Panic(msg, c)   == [err |-> msg, c |-> c, out |-> <<>>, call |-> <<>>]
Enter(c, fr)    == [err |-> "", c |-> c, out |-> <<>>, call |-> <<fr>>]
Emit(c, text)   == [err |-> "", c |-> c, out |-> text, call |-> <<>>]

Opens  == {"TupleStart", "BlockStart", "ArrayStart"}
Closes == {"TupleEnd", "BlockEnd", "ArrayEnd"}
KindOfOpen(o) ==
    CASE o = "TupleStart" -> "Tuple" [] o = "BlockStart" -> "Block" [] o = "ArrayStart" -> "Array"
CloserOf(kind) ==
    CASE kind = "Tuple" -> "TupleEnd" [] kind = "Block" -> "BlockEnd" [] kind = "Array" -> "ArrayEnd"
IsOp(val, o) == val.t = "Operation" /\ val.v = o
IsOpIn(val, S) == val.t = "Operation" /\ val.v \in S
IsKw(val, k) == val.t = "Keyword" /\ val.v = k

\* Delim (lib.rs 144-149): the kind and the buffered tokens
Delim(kind) == [kind |-> kind, vs |-> <<>>]
TopDelim(c) == c.delims[Len(c.delims)]
\* PopDelim without the pop: the closed frame stays on the delimiter stack
PopDelim_Keeps(c) == c
PopDelim(c) == [c EXCEPT !.delims = SubSeq(c.delims, 1, Len(c.delims) - 1)]

\* lib.rs 250, 262, 274: the test each arm of the match on the top frame makes
ClosesTop(c, val) == IsOp(val, CloserOf(TopDelim(c).kind))

\* BufferTok without the `continue` of lib.rs 287: the token is dispatched too
BufferTok_AlsoPushed(c, val) ==
    [c EXCEPT !.delims[Len(c.delims)].vs = Append(@, val),
              !.stack = Append(@, val)]

\* lib.rs 258, 270, 283: vs.push(val.clone())
BufferTok(c, val) ==
    [c EXCEPT !.delims[Len(c.delims)].vs = Append(@, val)]

\* lib.rs 215-222 and 231-238: the child state eval_tuple / eval_array run in
EvalChild(c) == NewState(c.vars, c.globals)

\* lib.rs 251-252 and 263-264 (block, tuple: pushed as data) and 275-277
\* (array: eval_array runs the contents first)
CloseDelim(c) ==
    LET d  == TopDelim(c)
        c1 == PopDelim(c)
    IN  IF d.kind = "Block" THEN Ok(push_value(c1, BlockV(d.vs)))
        ELSE IF d.kind = "Tuple" THEN Ok(push_value(c1, TupleV(d.vs)))
        ELSE Enter(c1, Frame(EvalChild(c1), d.vs, RetK("array")))

\* ExecDelim with an open token starting a frame of its own inside the open one
ExecDelim_Nests(c, val) ==
    IF ClosesTop(c, val) THEN CloseDelim(c)
    ELSE IF IsOpIn(val, Opens)
         THEN Ok([c EXCEPT !.delims = Append(@, Delim(KindOfOpen(val.v)))])
         ELSE Ok(BufferTok(c, val))

\* lib.rs 247-288: the token is taken by the top delimiter frame
ExecDelim(c, val) ==
    IF ClosesTop(c, val) THEN CloseDelim(c) ELSE Ok(BufferTok(c, val))

\* lib.rs 328-336
ExecOpen(c, o) == Ok([c EXCEPT !.delims = Append(@, Delim(KindOfOpen(o)))])

\* lib.rs 292-301
ExecAssign(c) ==
    LET g == get_value(c)
    IN  IF ~IsSome(g.r) THEN Panic(UnwrapNone, c)
        ELSE LET p == pop_value(g.c)
             IN  IF ~IsSome(p.r) THEN Panic(UnwrapNone, c)
                 ELSE IF Unwrap(p.r).t = "Ident"
                      THEN IF CanSet(p.c, Unwrap(p.r).v)
                           THEN Ok(set_var(p.c, Unwrap(p.r).v, Unwrap(g.r)))
                           ELSE Panic(UnwrapNone, c)
                      ELSE Panic("type mismatch", c)

\* lib.rs 305-322: a op b as the build without overflow checks computes it
ArithWrapped(o, a, b) ==
    CASE o = "Add" -> WrapAdd(a, b)
      [] o = "Sub" -> WrapSub(a, b)
      [] o = "Mul" -> WrapMul(a, b)
      [] o = "Div" -> TruncDiv(a, b)
      [] o = "Mod" -> TruncRem(a, b)
ArithOverflows(o, a, b) ==
    CASE o = "Add" -> AddOverflows(a, b)
      [] o = "Sub" -> SubOverflows(a, b)
      [] o = "Mul" -> MulOverflows(a, b)
      [] o \in {"Div", "Mod"} -> FALSE

\* ExecArith with the operands taken the other way round: b op a
ExecArith_Swapped(c, o, checked) ==
    LET gb == get_int(c)
    IN  IF gb.panic \/ ~IsSome(gb.r) THEN Panic(UnwrapNone, c)
        ELSE LET ga == get_int(gb.c)
             IN  IF ga.panic \/ ~IsSome(ga.r) THEN Panic(UnwrapNone, c)
                 ELSE LET a == Unwrap(gb.r)
                          b == Unwrap(ga.r)
                      IN  IF o \in {"Div", "Mod"} /\ b = 0
                          THEN Panic("attempt to divide by zero", c)
                          ELSE IF o \in {"Div", "Mod"} /\ a = MinI32 /\ b = -1
                          THEN Panic("attempt to divide with overflow", c)
                          ELSE IF ArithOverflows(o, a, b) /\ checked
                          THEN Panic("attempt to compute with overflow", c)
                          ELSE Ok(push_value(ga.c, IntV(ArithWrapped(o, a, b))))

\* lib.rs 302-323.  Division and remainder by zero, and MinI32 / -1, panic in
\* every build; an overflowing + - * panics when the build checks overflow
\* (`checked`) and wraps when it does not.
ExecArith(c, o, checked) ==
    LET gb == get_int(c)
    IN  IF gb.panic \/ ~IsSome(gb.r) THEN Panic(UnwrapNone, c)
        ELSE LET ga == get_int(gb.c)
             IN  IF ga.panic \/ ~IsSome(ga.r) THEN Panic(UnwrapNone, c)
                 ELSE LET a == Unwrap(ga.r)
                          b == Unwrap(gb.r)
                      IN  IF o \in {"Div", "Mod"} /\ b = 0
                          THEN Panic("attempt to divide by zero", c)
                          ELSE IF o \in {"Div", "Mod"} /\ a = MinI32 /\ b = -1
                          THEN Panic("attempt to divide with overflow", c)
                          ELSE IF ArithOverflows(o, a, b) /\ checked
                          THEN Panic("attempt to compute with overflow", c)
                          ELSE Ok(push_value(ga.c, IntV(ArithWrapped(o, a, b))))

\* lib.rs 324-327
ExecInvert(c) ==
    LET g == get_int(c)
    IN  IF g.panic \/ ~IsSome(g.r) THEN Panic(UnwrapNone, c)
        ELSE Ok(push_value(g.c, IntV(IF Unwrap(g.r) # 0 THEN 0 ELSE 1)))

\* BindArgs without .rev(): parameters are bound in declaration order
RECURSIVE BindArgs_Forward(_, _, _, _)
BindArgs_Forward(child, c, args, k) ==
    IF k = 0 THEN [err |-> "", child |-> child, c |-> c]
    ELSE LET g == get_value(c)
             a == args[Len(args) - k + 1]
         IN  IF ~IsSome(g.r) THEN [err |-> UnwrapNone, child |-> child, c |-> c]
             ELSE BindArgs_Forward(set_var(add_var(child, a), a, Unwrap(g.r)),
                                   g.c, args, k - 1)

\* BindArgs with pop_value in place of get_value: arguments are not resolved
RECURSIVE BindArgs_Unresolved(_, _, _, _)
BindArgs_Unresolved(child, c, args, k) ==
    IF k = 0 THEN [err |-> "", child |-> child, c |-> c]
    ELSE LET g == pop_value(c)
         IN  IF ~IsSome(g.r) THEN [err |-> UnwrapNone, child |-> child, c |-> c]
             ELSE BindArgs_Unresolved(set_var(add_var(child, args[k]), args[k], Unwrap(g.r)),
                                      g.c, args, k - 1)

\* lib.rs 347-350: for arg in f.args.iter().rev(); k is the index of the
\* parameter bound next, child the callee state, c the caller state
RECURSIVE BindArgs(_, _, _, _)
BindArgs(child, c, args, k) ==
    IF k = 0 THEN [err |-> "", child |-> child, c |-> c]
    ELSE LET g == get_value(c)
         IN  IF ~IsSome(g.r) THEN [err |-> UnwrapNone, child |-> child, c |-> c]
             ELSE BindArgs(set_var(add_var(child, args[k]), args[k], Unwrap(g.r)),
                           g.c, args, k - 1)

\* CallUser with the child starting from the caller's locals
CallUser_InheritsLocals(c, f) ==
    LET b == BindArgs(NewState(c.vars, c.globals), c, f.args, Len(f.args))
    IN  IF b.err # "" THEN Panic(b.err, c)
        ELSE Enter(b.c, Frame(b.child, f.body, RetK("call")))

\* lib.rs 339-351: a user function is called
CallUser(c, f) ==
    LET b == BindArgs(NewState(EmptyMap, c.globals), c, f.args, Len(f.args))
    IN  IF b.err # "" THEN Panic(b.err, c)
        ELSE Enter(b.c, Frame(b.child, f.body, RetK("call")))

\* CallExt with pop_value in place of get_value: the operand is not resolved
CallExt_Unresolved(c, name) ==
    LET g   == pop_value(c)
        val == IF IsSome(g.r) THEN Unwrap(g.r) ELSE NoneV
    IN  IF name \notin ExtFnNames THEN Panic(UnwrapNone, c)
        ELSE Ok(push_value(g.c, ExtCall(name, val)))

\* lib.rs 355-365: a native function is called
CallExt(c, name) ==
    LET g   == get_value(c)
        val == IF IsSome(g.r) THEN Unwrap(g.r) ELSE NoneV
    IN  IF name \notin ExtFnNames THEN Panic(UnwrapNone, c)
        ELSE Ok(push_value(g.c, ExtCall(name, val)))

\* lib.rs 337-371
ExecCallFn(c) ==
    LET g == get_value(c)
    IN  IF ~IsSome(g.r) THEN Panic(UnwrapNone, c)
        ELSE IF Unwrap(g.r).t = "Fn" THEN CallUser(g.c, Unwrap(g.r).v)
        ELSE IF Unwrap(g.r).t = "ExtFn" THEN CallExt(g.c, Unwrap(g.r).v)
        ELSE Panic("cant call non-fn", c)

\* ExecIndexArray with the index reduced modulo the length
ExecIndexArray_Wraps(c) ==
    LET gi == get_int(c)
    IN  IF gi.panic \/ ~IsSome(gi.r) THEN Panic(UnwrapNone, c)
        ELSE LET ga == get_value(gi.c)
                 i  == Unwrap(gi.r)
             IN  IF ~IsSome(ga.r) THEN Panic(UnwrapNone, c)
                 ELSE LET arr == Unwrap(ga.r)
                      IN  IF arr.t \in {"Array", "String"}
                          THEN IF Len(arr.v) > 0
                               THEN Ok(push_value(ga.c,
                                        IF arr.t = "Array" THEN arr.v[(i % Len(arr.v)) + 1]
                                        ELSE CharV(arr.v[(i % Len(arr.v)) + 1])))
                               ELSE Panic("index out of bounds", c)
                          ELSE Panic("index an array you tard", c)

\* lib.rs 372-383: `index as usize` makes a negative index larger than any
\* length, so it is out of bounds like every index >= len
ExecIndexArray(c) ==
    LET gi == get_int(c)
    IN  IF gi.panic \/ ~IsSome(gi.r) THEN Panic(UnwrapNone, c)
        ELSE LET ga == get_value(gi.c)
                 i  == Unwrap(gi.r)
             IN  IF ~IsSome(ga.r) THEN Panic(UnwrapNone, c)
                 ELSE LET arr == Unwrap(ga.r)
                      IN  IF arr.t \in {"Array", "String"}
                          THEN IF i >= 0 /\ i < Len(arr.v)
                               THEN Ok(push_value(ga.c,
                                        IF arr.t = "Array" THEN arr.v[i + 1]
                                        ELSE CharV(arr.v[i + 1])))
                               ELSE Panic("index out of bounds", c)
                          ELSE Panic("index an array you tard", c)


(***************************************************************************)
(* impl Display for Value (lib.rs 76-142) and the derived Debug output it  *)
(* uses for keywords, operators and functions.  Text is a sequence of      *)
(* characters.                                                             *)
(***************************************************************************)
\* the characters of a variant name, as #[derive(Debug)] writes it
Spell(w) ==
    CASE
         w = "Let" -> <<"L", "e", "t">>
      [] w = "Global" -> <<"G", "l", "o", "b", "a", "l">>
      [] w = "Print" -> <<"P", "r", "i", "n", "t">>
      [] w = "PrintLn" -> <<"P", "r", "i", "n", "t", "L", "n">>
      [] w = "Fn" -> <<"F", "n">>
      [] w = "For" -> <<"F", "o", "r">>
      [] w = "If" -> <<"I", "f">>
      [] w = "Add" -> <<"A", "d", "d">>
      [] w = "Sub" -> <<"S", "u", "b">>
      [] w = "Mul" -> <<"M", "u", "l">>
      [] w = "Div" -> <<"D", "i", "v">>
      [] w = "Mod" -> <<"M", "o", "d">>
      [] w = "Assign" -> <<"A", "s", "s", "i", "g", "n">>
      [] w = "AddAssign" -> <<"A", "d", "d", "A", "s", "s", "i", "g", "n">>
      [] w = "SubAssign" -> <<"S", "u", "b", "A", "s", "s", "i", "g", "n">>
      [] w = "MulAssign" -> <<"M", "u", "l", "A", "s", "s", "i", "g", "n">>
      [] w = "DivAssign" -> <<"D", "i", "v", "A", "s", "s", "i", "g", "n">>
      [] w = "Invert" -> <<"I", "n", "v", "e", "r", "t">>
      [] w = "TupleStart" -> <<"T", "u", "p", "l", "e", "S", "t", "a", "r", "t">>
      [] w = "TupleEnd" -> <<"T", "u", "p", "l", "e", "E", "n", "d">>
      [] w = "BlockStart" -> <<"B", "l", "o", "c", "k", "S", "t", "a", "r", "t">>
      [] w = "BlockEnd" -> <<"B", "l", "o", "c", "k", "E", "n", "d">>
      [] w = "ArrayStart" -> <<"A", "r", "r", "a", "y", "S", "t", "a", "r", "t">>
      [] w = "ArrayEnd" -> <<"A", "r", "r", "a", "y", "E", "n", "d">>
      [] w = "CallFn" -> <<"C", "a", "l", "l", "F", "n">>
      [] w = "IndexArray" -> <<"I", "n", "d", "e", "x", "A", "r", "r", "a", "y">>
      [] w = "Int" -> <<"I", "n", "t">>
      [] w = "Char" -> <<"C", "h", "a", "r">>
      [] w = "String" -> <<"S", "t", "r", "i", "n", "g">>
      [] w = "Ident" -> <<"I", "d", "e", "n", "t">>
      [] w = "ExtFn" -> <<"E", "x", "t", "F", "n">>
      [] w = "Operation" -> <<"O", "p", "e", "r", "a", "t", "i", "o", "n">>
      [] w = "Keyword" -> <<"K", "e", "y", "w", "o", "r", "d">>
      [] w = "Tuple" -> <<"T", "u", "p", "l", "e">>
      [] w = "Block" -> <<"B", "l", "o", "c", "k">>
      [] w = "Array" -> <<"A", "r", "r", "a", "y">>
      [] w = "None" -> <<"N", "o", "n", "e">>

Digit(d) == CASE d = 0 -> "0" [] d = 1 -> "1" [] d = 2 -> "2" [] d = 3 -> "3"
              [] d = 4 -> "4" [] d = 5 -> "5" [] d = 6 -> "6" [] d = 7 -> "7"
              [] d = 8 -> "8" [] d = 9 -> "9"
\* the digits of |n| for n <= 0, computed without negating n
RECURSIVE Magnitude(_)
Magnitude(n) ==
    LET q == TruncDiv(n, 10)
    IN  IF n > -10 THEN <<Digit(-n)>>
        ELSE Magnitude(q) \o <<Digit(q * 10 - n)>>
\* i32's Display
Decimal(n) ==
    IF n < 0 THEN <<"-">> \o Magnitude(n)
    ELSE IF n = 0 THEN <<"0">> ELSE Magnitude(-n)

\* char::escape_debug for the characters a string literal can hold
EscapeIn(ch, quote) ==
    IF ch = "\n" THEN <<"\\", "n">>
    ELSE IF ch = "\t" THEN <<"\\", "t">>
    ELSE IF ch = "\\" THEN <<"\\", "\\">>
    ELSE IF ch = quote THEN <<"\\", quote>>
    ELSE <<ch>>
RECURSIVE EscapeAll(_, _)
EscapeAll(s, quote) ==
    IF s = <<>> THEN <<>> ELSE EscapeIn(Head(s), quote) \o EscapeAll(Tail(s), quote)
DebugStr(s) == <<"\"">> \o EscapeAll(s, "\"") \o <<"\"">>

RECURSIVE DebugValue(_), DebugList(_, _), DebugNames(_, _)
\* #[derive(Debug)] on Fn (lib.rs 39-43)
DebugFn(f) ==
    <<"F", "n", " ", "{", " ", "a", "r", "g", "s", ":", " ", "[">> \o DebugNames(f.args, 1)
      \o <<"]", ",", " ", "b", "o", "d", "y", ":", " ", "[">> \o DebugList(f.body, 1) \o <<"]", " ", "}">>
\* #[derive(Debug)] on Value (lib.rs 45-59)
DebugValue(val) ==
    IF val.t = "None" THEN Spell("None")
    ELSE Spell(val.t) \o <<"(">> \o
         (CASE val.t = "Int" -> Decimal(val.v)
            [] val.t = "Char" -> <<"'">> \o EscapeIn(val.v, "'") \o <<"'">>
            [] val.t \in {"String", "Ident", "ExtFn"} -> DebugStr(val.v)
            [] val.t \in {"Operation", "Keyword"} -> Spell(val.v)
            [] val.t = "Fn" -> DebugFn(val.v)
            [] val.t \in {"Tuple", "Block", "Array"} ->
                   <<"[">> \o DebugList(val.v, 1) \o <<"]">>)
         \o <<")">>
DebugList(vs, i) ==
    IF i > Len(vs) THEN <<>>
    ELSE DebugValue(vs[i]) \o (IF i < Len(vs) THEN <<",", " ">> ELSE <<>>)
         \o DebugList(vs, i + 1)
DebugNames(ns, i) ==
    IF i > Len(ns) THEN <<>>
    ELSE DebugStr(ns[i]) \o (IF i < Len(ns) THEN <<",", " ">> ELSE <<>>)
         \o DebugNames(ns, i + 1)

RECURSIVE Display(_), DisplayList(_, _, _)
\* lib.rs 108-113, 118-125, 130-137: the elements, a space after each but
\* the last, and `last` after the last
DisplayList(vs, i, last) ==
    IF i > Len(vs) THEN <<>>
    ELSE Display(vs[i]) \o (IF i # Len(vs) THEN <<" ">> ELSE last)
         \o DisplayList(vs, i + 1, last)
\* lib.rs 76-142
Display(val) ==
    CASE val.t = "Ident" -> <<"(", "i", "d", "e", "n", "t", ":", " ">> \o val.v \o <<")">>
      [] val.t = "ExtFn" -> <<"(", "e", "x", "t", "_", "f", "n", ":", " ">> \o val.v \o <<")">>
      [] val.t = "Int" -> Decimal(val.v)
      [] val.t = "Char" -> <<val.v>>
      [] val.t = "Keyword" -> Spell(val.v)
      [] val.t = "String" -> val.v
      [] val.t = "None" -> <<"n", "o", "n", "e">>
      [] val.t = "Operation" -> <<"(", "o", "p", ":", " ">> \o Spell(val.v) \o <<")">>
      [] val.t = "Fn" -> <<"(", "f", "n", ":", " ">> \o DebugFn(val.v) \o <<")">>
      [] val.t = "Tuple" -> <<"(">> \o DisplayList(val.v, 1, <<>>) \o <<")">>
      [] val.t = "Block" -> <<"{", "\n", "\t">> \o DisplayList(val.v, 1, <<"\n">>) \o <<"}">>
      [] val.t = "Array" -> <<"[", "\n", "\t">> \o DisplayList(val.v, 1, <<"\n">>) \o <<"]">>

\* print! (lib.rs 450) and println! (lib.rs 454)
Printed(val, nl) == Display(val) \o (IF nl THEN <<"\n">> ELSE <<>>)

(***************************************************************************)
(* Keyword instructions (lib.rs 405-517)                                   *)
(***************************************************************************)
\* lib.rs 407-416
ExecLet(c) ==
    LET p == pop_value(c)
    IN  IF ~IsSome(p.r) THEN Panic(UnwrapNone, c)
        ELSE IF Unwrap(p.r).t = "Ident"
             THEN Ok(push_value(add_var(p.c, Unwrap(p.r).v), Unwrap(p.r)))
             ELSE Panic("use let on an ident, dummy!", c)

\* lib.rs 417-426
ExecGlobal(c) ==
    LET p == pop_value(c)
    IN  IF ~IsSome(p.r) THEN Panic(UnwrapNone, c)
        ELSE IF Unwrap(p.r).t = "Ident"
             THEN Ok(push_value(add_global(p.c, Unwrap(p.r).v), Unwrap(p.r)))
             ELSE Panic("use let on an ident, dummy!", c)

\* lib.rs 432-437: only the identifier entries become parameter names
RECURSIVE ArgNames(_)
ArgNames(tuple) ==
    IF tuple = <<>> THEN <<>>
    ELSE (IF Head(tuple).t = "Ident" THEN <<Head(tuple).v>> ELSE <<>>)
         \o ArgNames(Tail(tuple))

\* lib.rs 427-447
ExecFn(c) ==
    LET gb == get_value(c)
    IN  IF ~IsSome(gb.r) THEN Panic(UnwrapNone, c)
        ELSE LET gt == get_value(gb.c)
             IN  IF ~IsSome(gt.r) THEN Panic(UnwrapNone, c)
                 ELSE IF Unwrap(gb.r).t = "Block" /\ Unwrap(gt.r).t = "Tuple"
                      THEN Ok(push_value(gt.c,
                                FnV(ArgNames(Unwrap(gt.r).v), Unwrap(gb.r).v)))
                      ELSE Panic("try to create a function properly next time", c)

\* lib.rs 448-455 with eval_tuple (213-228): a tuple is run first, in a
\* child state; anything else is printed as it is
ExecPrint(c, nl) ==
    LET g == get_value(c)
    IN  IF ~IsSome(g.r) THEN Panic(UnwrapNone, c)
        ELSE IF Unwrap(g.r).t = "Tuple"
             THEN Enter(g.c, Frame(EvalChild(g.c), Unwrap(g.r).v,
                                   [RetK("print") EXCEPT !.nl = nl]))
             ELSE Emit(g.c, Printed(Unwrap(g.r), nl))

\* lib.rs 461-475: the loop's child state and its run.  The frame starts
\* with its body used up, so that the loop head (ForNext / ForExit) acts.
ForEnter(c, block, val_name, array) ==
    IF array.t # "Array" THEN Panic("not an array", c)
    ELSE IF val_name.t # "Ident" THEN Panic("not an ident", c)
    ELSE IF block.t # "Block" THEN Panic("not a block", c)
    ELSE Enter(c, [st   |-> add_var(NewState(c.vars, c.globals), val_name.v),
                   code |-> block.v,
                   pc   |-> Len(block.v) + 1,
                   ret  |-> [RetK("for") EXCEPT !.name = val_name, !.rest = array.v]])

\* lib.rs 456-460: the three operands; eval_array (229-244) runs the source
\* when it is an array
ExecFor(c) ==
    LET gb == get_value(c)
    IN  IF ~IsSome(gb.r) THEN Panic(UnwrapNone, c)
        ELSE LET pn == pop_value(gb.c)
             IN  IF ~IsSome(pn.r) THEN Panic(UnwrapNone, c)
                 ELSE LET ga == get_value(pn.c)
                      IN  IF ~IsSome(ga.r) THEN Panic(UnwrapNone, c)
                          ELSE IF Unwrap(ga.r).t = "Array"
                               THEN Enter(ga.c, Frame(EvalChild(ga.c), Unwrap(ga.r).v,
                                        [RetK("forsrc") EXCEPT !.block = Unwrap(gb.r),
                                                               !.name = Unwrap(pn.r)]))
                               ELSE ForEnter(ga.c, Unwrap(gb.r), Unwrap(pn.r), Unwrap(ga.r))

\* ExecIf without the test of the condition (lib.rs 496)
ExecIf_RunsAlways(c) ==
    LET gb == get_value(c)
    IN  IF ~IsSome(gb.r) THEN Panic(UnwrapNone, c)
        ELSE LET gc == get_int(gb.c)
             IN  IF gc.panic \/ ~IsSome(gc.r) THEN Panic(UnwrapNone, c)
                 ELSE IF Unwrap(gb.r).t = "Block"
                      THEN Enter(gc.c, Frame(NewState(gc.c.vars, gc.c.globals),
                                             Unwrap(gb.r).v, RetK("if")))
                      ELSE Panic("not a block", c)

\* lib.rs 493-515
ExecIf(c) ==
    LET gb == get_value(c)
    IN  IF ~IsSome(gb.r) THEN Panic(UnwrapNone, c)
        ELSE LET gc == get_int(gb.c)
             IN  IF gc.panic \/ ~IsSome(gc.r) THEN Panic(UnwrapNone, c)
                 ELSE IF Unwrap(gc.r) # 0
                      THEN IF Unwrap(gb.r).t = "Block"
                           THEN Enter(gc.c, Frame(NewState(gc.c.vars, gc.c.globals),
                                                  Unwrap(gb.r).v, RetK("if")))
                           ELSE Panic("not a block", c)
                      ELSE Ok(gc.c)


(***************************************************************************)
(* What the caller does when the nested run is over                        *)
(***************************************************************************)
\* MergeVars copying the whole local table of the child
MergeVars_AllOfChild(parent, child) == child.vars

\* lib.rs 476-478 and 506-508: every local of the parent takes the value
\* the child's get_var finds for its name
MergeOk(parent, child) == \A n \in DOMAIN parent.vars : IsSome(get_var(child, n))
MergeVars(parent, child) == [n \in DOMAIN parent.vars |-> Unwrap(get_var(child, n))]

\* ExitCall merging locals the way if and for do
ExitCall_MergesLocals(parent, child) ==
    Ok([parent EXCEPT !.vars = [n \in DOMAIN parent.vars |->
                                    IF IsSome(get_var(child, n))
                                    THEN Unwrap(get_var(child, n)) ELSE parent.vars[n]],
                      !.globals = child.globals])

\* ExitCall handing the operands the body left over to the caller
ExitCall_ReturnsStack(parent, child) ==
    Ok([parent EXCEPT !.stack = @ \o child.stack, !.globals = child.globals])

\* lib.rs 352
ExitCall(parent, child) == Ok([parent EXCEPT !.globals = child.globals])

\* ExitIf taking over the child's local table, new names included
ExitIf_KeepsNew(parent, child) ==
    Ok([parent EXCEPT !.vars = child.vars, !.globals = child.globals])

\* lib.rs 506-509
ExitIf(parent, child) ==
    IF ~MergeOk(parent, child) THEN Panic(UnwrapNone, parent)
    ELSE Ok([parent EXCEPT !.vars = MergeVars(parent, child),
                           !.globals = child.globals])

\* lib.rs 476-478 and 491
ExitFor(parent, child) ==
    IF ~MergeOk(parent, child) THEN Panic(UnwrapNone, parent)
    ELSE Ok([parent EXCEPT !.vars = MergeVars(parent, child),
                           !.globals = child.globals])

\* ExitArray without the copy of the global table back to the parent
ExitArray_DropsGlobals(parent, child) ==
    Ok(push_value(parent, ArrayV(child.stack)))

\* lib.rs 239-240 and 277
ExitArray(parent, child) ==
    Ok(push_value([parent EXCEPT !.globals = child.globals], ArrayV(child.stack)))

\* lib.rs 223-224 and 450 / 454
ExitPrint(parent, child, nl) ==
    Emit([parent EXCEPT !.globals = child.globals], Printed(TupleV(child.stack), nl))

\* lib.rs 239-240, then 461-475
ExitForSrc(parent, child, ret) ==
    ForEnter([parent EXCEPT !.globals = child.globals],
             ret.block, ret.name, ArrayV(child.stack))

\* lib.rs 472-474: the next element is bound and the body runs again
LoopAgain(fr) ==
    [fr EXCEPT !.st = set_var(fr.st, fr.ret.name.v, Head(fr.ret.rest)),
               !.pc = 1,
               !.ret.rest = Tail(fr.ret.rest)]

(***************************************************************************)
(* tokenize (lib.rs 528-655).  The source text is a sequence of characters *)
(* and the loop takes them one at a time; its state is cur_val (the token  *)
(* in progress, Value::None when idle), cur_str and vals.                  *)
(***************************************************************************)
Digits == {"0", "1", "2", "3", "4", "5", "6", "7", "8", "9"}
Letters == {"a", "b", "d", "e", "f", "g", "i", "l", "n", "o", "p", "r", "t", "u", "x"}
\* char::is_numeric, char::is_ascii_alphabetic and char::is_alphanumeric on
\* the characters the model's source texts are made of
is_numeric(ch) == ch \in Digits
is_ascii_alphabetic(ch) == ch \in Letters
is_alphanumeric(ch) == ch \in Digits \cup Letters

\* lib.rs 548-565; "" stands for the arm that panics
GlyphOp(ch) ==
    CASE ch = "+" -> "Add" [] ch = "-" -> "Sub" [] ch = "*" -> "Mul"
      [] ch = "/" -> "Div" [] ch = "%" -> "Mod" [] ch = "=" -> "Assign"
      [] ch = "!" -> "Invert" [] ch = "(" -> "TupleStart" [] ch = ")" -> "TupleEnd"
      [] ch = "{" -> "BlockStart" [] ch = "}" -> "BlockEnd"
      [] ch = "[" -> "ArrayStart" [] ch = "]" -> "ArrayEnd"
      [] ch = "@" -> "CallFn" [] ch = "#" -> "IndexArray"
      [] OTHER -> ""

\* lib.rs 624-640; "" stands for the arm that panics
CompoundOf(cop) ==
    CASE cop = "Add" -> "AddAssign" [] cop = "Sub" -> "SubAssign"
      [] cop = "Mul" -> "MulAssign" [] cop = "Div" -> "DivAssign"
      [] OTHER -> ""

\* lib.rs 589-614
Word(s) ==
    CASE s = <<"l", "e", "t">> -> KeywordV("Let")
      [] s = <<"g", "l", "o", "b", "a", "l">> -> KeywordV("Global")
      [] s = <<"p", "r", "i", "n", "t">> -> KeywordV("Print")
      [] s = <<"p", "r", "i", "n", "t", "l", "n">> -> KeywordV("PrintLn")
      [] s = <<"f", "n">> -> KeywordV("Fn")
      [] s = <<"f", "o", "r">> -> KeywordV("For")
      [] s = <<"i", "f">> -> KeywordV("If")
      [] OTHER -> IdentV(s)

DigitVal(ch) ==
    CASE ch = "0" -> 0 [] ch = "1" -> 1 [] ch = "2" -> 2 [] ch = "3" -> 3
      [] ch = "4" -> 4 [] ch = "5" -> 5 [] ch = "6" -> 6 [] ch = "7" -> 7
      [] ch = "8" -> 8 [] ch = "9" -> 9
\* str::parse::<i32> on a run of digits (lib.rs 571): None when the value
\* does not fit
RECURSIVE ParseFrom(_, _, _)
ParseFrom(s, i, acc) ==
    IF i > Len(s) THEN Some(acc)
    ELSE LET d == DigitVal(s[i])
         IN  IF acc > (MaxI32 - d) \div 10 THEN None
             ELSE ParseFrom(s, i + 1, acc * 10 + d)
ParseInt(s) == IF s = <<>> THEN None ELSE ParseFrom(s, 1, 0)

\* lib.rs 529-531
LexStart == [cur_val |-> NoneV, cur_str |-> <<>>, vals |-> <<>>]
LexOk(l) == [err |-> "", l |-> l]
LexPanic(msg, l) == [err |-> msg, l |-> l]
\* vals.push(tok); cur_str.clear(); cur_val = Value::None; continue
EmitTok(l, tok) ==
    LexOk([cur_val |-> NoneV, cur_str |-> <<>>, vals |-> Append(l.vals, tok)])

\* lib.rs 534-568
LexIdle(l, ch) ==
    IF is_numeric(ch)
    THEN LexOk([l EXCEPT !.cur_val = IntV(0), !.cur_str = Append(@, ch)])
    ELSE IF is_ascii_alphabetic(ch)
    THEN LexOk([l EXCEPT !.cur_val = IdentV(<<>>), !.cur_str = Append(@, ch)])
    ELSE IF ch = "\""
    THEN LexOk([l EXCEPT !.cur_val = StringV(<<>>)])
    ELSE IF ch = " " \/ ch = "\n"
    THEN LexOk([l EXCEPT !.cur_str = <<>>])
    ELSE IF GlyphOp(ch) = "" THEN LexPanic("invalid char", l)
    ELSE LexOk([l EXCEPT !.cur_val = OperationV(GlyphOp(ch))])

\* lib.rs 569-577
LexInt(l, ch) ==
    IF ~is_numeric(ch)
    THEN IF IsSome(ParseInt(l.cur_str))
         THEN EmitTok(l, IntV(Unwrap(ParseInt(l.cur_str))))
         ELSE LexPanic("called Result::unwrap() on an Err value", l)
    ELSE LexOk([l EXCEPT !.cur_str = Append(@, ch)])

\* lib.rs 578-586
LexString(l, ch) ==
    IF ch = "\"" THEN EmitTok(l, StringV(l.cur_str))
    ELSE LexOk([l EXCEPT !.cur_str = Append(@, ch)])

\* lib.rs 587-620
LexIdent(l, ch) ==
    IF ~is_alphanumeric(ch) THEN EmitTok(l, Word(l.cur_str))
    ELSE LexOk([l EXCEPT !.cur_str = Append(@, ch)])

\* lib.rs 621-650
LexOperation(l, ch) ==
    IF ch = "="
    THEN IF CompoundOf(l.cur_val.v) = "" THEN LexPanic("invalid operator", l)
         ELSE LexOk([l EXCEPT !.cur_val = OperationV(CompoundOf(l.cur_val.v))])
    ELSE EmitTok(l, l.cur_val)

\* lib.rs 533-652: one iteration of the loop over the characters
LexStep(l, ch) ==
    CASE l.cur_val.t = "None" -> LexIdle(l, ch)
      [] l.cur_val.t = "Int" -> LexInt(l, ch)
      [] l.cur_val.t = "String" -> LexString(l, ch)
      [] l.cur_val.t = "Ident" -> LexIdent(l, ch)
      [] l.cur_val.t = "Operation" -> LexOperation(l, ch)

\* lib.rs 528-655 as a function of the text: the tokens, or <<"panic">>
RECURSIVE LexFrom(_, _, _)
LexFrom(l, src, i) ==
    IF i > Len(src) THEN l.vals
    ELSE LET r == LexStep(l, src[i])
         IN  IF r.err # "" THEN <<"panic">> ELSE LexFrom(r.l, src, i + 1)
tokenize(fortnite) == LexFrom(LexStart, fortnite, 1)

(***************************************************************************)
(* Programs.  run receives its whole token slice at once; the model draws  *)
(* it from Programs, defined below from the bounds.                        *)
(***************************************************************************)
I(n)  == IntV(n)
Id(s) == IdentV(<<s>>)
O(o)  == OperationV(o)
K(k)  == KeywordV(k)

MaxGroupLen == 4
MaxDepth == 4
MaxArgs == 3
MaxElems == 3

GroupAlphabet ==
    {O("TupleStart"), O("TupleEnd"), O("BlockStart"), O("BlockEnd"),
     O("ArrayStart"), O("ArrayEnd"), I(1)}

SeqsUpTo(S, n) == UNION {[1..k -> S] : k \in 0..n}

GroupPrograms == SeqsUpTo(GroupAlphabet, MaxGroupLen)


\* x let 1 = g global 0 =
Prelude ==
    <<Id("x"), K("Let"), I(1), O("Assign"), Id("g"), K("Global"), I(0), O("Assign")>>

InBlock(body) == <<O("BlockStart")>> \o body \o <<O("BlockEnd")>>
InTuple(body) == <<O("TupleStart")>> \o body \o <<O("TupleEnd")>>
InArray(body) == <<O("ArrayStart")>> \o body \o <<O("ArrayEnd")>>

\* bodies of if: assign to a local of the parent, declare a new local,
\* declare or assign a global, print
IfBodies ==
    {<<>>,
     <<Id("x"), I(5), O("Assign")>>,
     <<Id("y"), K("Let"), I(7), O("Assign")>>,
     <<Id("x"), I(5), O("Assign"), Id("y"), K("Let"), I(7), O("Assign")>>,
     <<Id("x"), K("Let"), I(9), O("Assign")>>,
     <<Id("g"), I(3), O("Assign"), Id("h"), K("Global"), I(4), O("Assign")>>,
     <<Id("x"), K("PrintLn"), I(8)>>,
     <<Id("y"), K("Let"), Id("x"), O("Assign"), Id("x"), Id("y"), I(2), O("Add"), O("Assign")>>}
IfConds == {<<I(0)>>, <<I(1)>>, <<I(2)>>, <<Id("x")>>, <<Id("g")>>, <<I(0), O("Invert")>>}
IfTails == {<<>>, <<Id("y"), K("PrintLn")>>}
IfPrograms ==
    {Prelude \o c \o InBlock(b) \o <<K("If")>> \o t :
        c \in IfConds, b \in IfBodies, t \in IfTails}

\* bodies of for
ForBodies ==
    {<<>>,
     <<Id("x"), Id("x"), Id("i"), O("Add"), O("Assign")>>,
     <<Id("y"), K("Let"), Id("i"), O("Assign")>>,
     <<Id("g"), Id("i"), O("Assign")>>,
     <<Id("i"), K("Print")>>,
     <<Id("y"), K("Let"), Id("i"), O("Assign"), Id("x"), Id("x"), Id("y"), O("Add"), O("Assign")>>,
     <<Id("i"), O("TupleStart"), Id("x")>>}
ForElems == SeqsUpTo({I(1), I(2)}, MaxElems) \cup {<<InTuple(<<I(1)>>)[1], I(1), O("TupleEnd"), I(2)>>}
ForVars == {Id("i"), Id("x")}
ForPrograms ==
    {Prelude \o InArray(e) \o <<v>> \o InBlock(b) \o <<K("For")>> :
        e \in ForElems, v \in ForVars, b \in ForBodies}

\* bodies of user functions
FnBodies ==
    {<<>>,
     <<Id("p"), K("PrintLn")>>,
     <<Id("g"), Id("p"), O("Assign")>>,
     <<Id("x"), K("PrintLn")>>,
     <<Id("x"), I(5), O("Assign")>>,
     <<Id("h"), K("Global"), Id("q"), O("Assign")>>,
     <<Id("x"), K("Let"), I(3), O("Assign"), Id("g"), Id("x"), O("Assign")>>,
     <<Id("p"), Id("q"), O("Sub"), K("Print")>>,
     <<Id("x"), I(1), O("Add")>>}
FnParams ==
    {<<>>, <<Id("p")>>, <<Id("p"), Id("q")>>, <<Id("p"), Id("q"), Id("r")>>,
     <<Id("p"), Id("p")>>, <<Id("p"), I(1), Id("q")>>}
FnArgs == SeqsUpTo({I(2), Id("x"), Id("z")}, MaxArgs)
FnPrograms ==
    {Prelude \o a \o InTuple(ps) \o InBlock(b) \o <<K("Fn"), O("CallFn")>> :
        a \in FnArgs, ps \in FnParams, b \in FnBodies}

\* arithmetic, indexing, native calls, printing, instructions without
\* operands, a function that calls itself
BinOps == {"Add", "Sub", "Mul", "Div", "Mod"}
ArithPrograms ==
    {<<I(a), I(b), O(o)>> : a \in {2, 10, -7, MaxI32, MinI32}, b \in {0, 1, 3, -1}, o \in BinOps}
Hi == StringV(<<"h", "i">>)
IndexPrograms ==
    {src \o <<I(i), O("IndexArray")>> :
        src \in {InArray(<<I(10), I(20), I(30)>>), <<Hi>>, <<I(4)>>}, i \in -1..3}
MiscPrograms ==
    {<<I(5), IdentV(NameDouble), O("CallFn")>>,
     <<IdentV(NameDouble), O("CallFn")>>,
     <<I(5), O("CallFn")>>,
     <<I(1), I(2), O("AddAssign"), O("SubAssign"), O("MulAssign"), O("DivAssign")>>,
     InTuple(<<I(1), I(2), O("Add"), Id("x")>>) \o <<K("PrintLn")>>,
     Prelude \o InTuple(<<Id("g"), I(6), O("Assign"), Id("x"), I(6), O("Assign")>>) \o <<K("Print")>>,
     Prelude \o InArray(<<Id("g"), I(6), O("Assign"), Id("x"), I(6), O("Assign"), I(3)>>),
     InTuple(<<Id("p")>>) \o InBlock(<<I(1)>>) \o <<K("Fn"), K("PrintLn")>>,
     InBlock(<<Hi, CharV("c"), NoneV>>) \o <<K("Print")>>,
     <<Id("f"), K("Global")>> \o InTuple(<<>>) \o InBlock(<<Id("f"), O("CallFn")>>)
        \o <<K("Fn"), O("Assign"), Id("f"), O("CallFn")>>,
     Prelude \o <<Id("g"), K("Let"), I(4), O("Assign"), Id("g"), Id("x"), O("Assign")>>,
     Prelude \o <<Id("g"), I(4), O("Assign"), Id("z"), I(4), O("Assign")>>,
     <<I(7)>> \o Prelude \o <<Id("g")>> \o InBlock(<<Id("x"), K("PrintLn"), Id("x"), I(5), O("Assign")>>)
        \o <<K("If")>>,
     Prelude \o <<I(3), Id("x"), IdentV(NameDouble), O("CallFn")>>,
     <<I(5), ExtFnV(<<"n", "o">>), O("CallFn")>>,
     Prelude \o <<Hi, Id("x"), O("IndexArray")>>,
     <<I(0), I(5), K("If")>>,
     <<I(1), I(5), K("If")>>,
     <<I(1), Id("i")>> \o InBlock(<<>>) \o <<K("For")>>,
     InArray(<<I(1)>>) \o <<I(2)>> \o InBlock(<<>>) \o <<K("For")>>,
     InArray(<<I(1)>>) \o <<Id("i"), I(3), K("For")>>,
     InTuple(<<>>) \o <<I(3), K("Fn")>>,
     <<Hi, I(1), O("Add")>>,
     Prelude \o <<Id("x"), I(2), O("AddAssign"), Id("x"), K("PrintLn")>>,
     Prelude \o <<I(9), I(2)>> \o InTuple(<<Id("p")>>) \o InBlock(<<Id("p"), I(7)>>)
             \o <<K("Fn"), O("CallFn")>>}
Instructions ==
    {O(o) : o \in BinOps \cup {"Assign", "Invert", "CallFn", "IndexArray"}}
    \cup {K(k) : k \in {"Let", "Global", "Print", "PrintLn", "Fn", "For", "If"}}
OperandPrograms ==
    {ops \o <<ins>> : ops \in SeqsUpTo({I(1), Id("x")}, 2), ins \in Instructions}

\* source texts: the scripts of the arithmetic and native-call examples,
\* with and without a character after the last token, and every text of at
\* most MaxSrcLen characters over LexAlphabet
MaxSrcLen == 3
LexAlphabet == {"2", "+", "=", " ", "a", "\"", "$"}
Src23Add == <<"2", " ", "3", " ", "+">>
\* token sequences rendered with Display and joined with a space, as texts
MaxToks == 2
RoundTripAlphabet == {I(7), I(-7), StringV(<<"a">>), Id("x")}
RoundTripToks == SeqsUpTo(RoundTripAlphabet, MaxToks)
RECURSIVE Render(_)
Render(toks) ==
    IF toks = <<>> THEN <<>>
    ELSE IF Len(toks) = 1 THEN Display(toks[1])
    ELSE Display(toks[1]) \o <<" ">> \o Render(Tail(toks))
Sources ==
    {Src23Add, Src23Add \o <<" ">>, Src23Add \o <<"\n">>,
     <<"1", "0", " ", "3", " ", "/", " ">>,
     <<"2", " ", "1", " ", "-", "\n">>,
     <<"5", " ", "d", "o", "u", "b", "l", "e", " ", "@", " ">>,
     <<"x", " ", "l", "e", "t", " ", "1", " ", "=", " ", "x", " ", "p", "r", "i", "n", "t", " ">>,
     <<"2", "1", "4", "7", "4", "8", "3", "6", "4", "8", " ">>,
     <<"2", "1", "4", "7", "4", "8", "3", "6", "4", "7", " ">>,
     <<"+", "2", "1", "4", "7", "4", "8", "3", "6", "4", "8", " ">>,
     <<"0", "0", "7", "\n">>,
     <<"+", "3", " ">>, <<"-", "(", " ">>, <<"*", "x", " ">>, <<"/", "\"", "a", "\"", " ">>,
     <<"x", "=", "1", "+", "2", "\n">>,
     <<"(", "a", ")", "{", "}", "[", "]", "@", "#", "!", "%", " ">>}
    \cup SeqsUpTo(LexAlphabet, MaxSrcLen)
    \cup {Render(toks) : toks \in RoundTripToks}

\* one call of a one-parameter function with the argument 5 and the global
\* g, by callers that differ in the locals they hold and do not pass: the
\* bodies print the parameter and set the global, or name the caller's local
\* s to print it, to assign to it, or after declaring a local s of their own
IsoCallers ==
    {<<>>,
     <<Id("s"), K("Let"), I(1), O("Assign")>>,
     <<Id("s"), K("Let"), I(2), O("Assign")>>,
     <<Id("t"), K("Let"), I(1), O("Assign")>>}
IsoBodies ==
    {<<Id("p"), K("PrintLn"), Id("g"), Id("p"), O("Assign")>>,
     <<Id("s"), K("PrintLn"), Id("g"), Id("s"), O("Assign")>>,
     <<Id("p"), K("PrintLn"), Id("s"), I(3), O("Assign")>>,
     <<Id("s"), K("Let"), I(4), O("Assign"), Id("s"), K("PrintLn"), Id("g"), Id("s"), O("Assign")>>}
IsoCall(b) ==
    <<Id("g"), K("Global"), I(0), O("Assign"), I(5)>>
    \o InTuple(<<Id("p")>>) \o InBlock(b) \o <<K("Fn"), O("CallFn"), Id("g"), K("PrintLn")>>
IsoPrograms == {c \o IsoCall(b) : c \in IsoCallers, b \in IsoBodies}

Programs ==
    GroupPrograms \cup IfPrograms \cup ForPrograms \cup FnPrograms
    \cup ArithPrograms \cup IndexPrograms \cup MiscPrograms \cup OperandPrograms
    \cup IsoPrograms

(***************************************************************************)
(* The state machine                                                       *)
(***************************************************************************)
VARIABLES
    frames,   \* the runs in progress, the executing one last
    out,      \* the characters written to stdout
    status,   \* "running", "done" (the top-level run returned) or "panic"
    err,      \* the panic message
    ev,       \* the last step: its action, and frames, out and lex before it
    lex,      \* the tokenizer: the text, the next position, the loop's state
    twin      \* the outcome of an earlier run of the same call by another caller

vars == <<frames, out, status, err, ev, lex, twin>>

\* no earlier run to compare with
NoTwin == [k |-> 0, vars |-> EmptyMap, out |-> <<>>, globals |-> EmptyMap, panic |-> FALSE]

\* lib.rs 245 with a fresh top-level state
\* or lib.rs 528 with the text of a script, whose tokens are run afterwards
Init ==
    /\ \/ /\ \E p \in Programs :
                frames = <<Frame(NewState(EmptyMap, EmptyMap), p, RetK("top"))>>
          /\ status = "running"
          /\ lex = [src |-> <<>>, pos |-> 1, l |-> LexStart]
       \/ /\ frames = <<>>
          /\ status = "lexing"
          /\ \E src \in Sources : lex = [src |-> src, pos |-> 1, l |-> LexStart]
    /\ out = <<>>
    /\ err = ""
    /\ ev = [act |-> "Init", pre |-> <<>>, out |-> <<>>, lex |-> lex]
    /\ twin = NoTwin

Cur == frames[Len(frames)]
Parent == frames[Len(frames) - 1]
Tok == Cur.code[Cur.pc]
AtTok == status = "running" /\ Cur.pc <= Len(Cur.code)
AtEnd == status = "running" /\ Cur.pc > Len(Cur.code)
Grouping == AtTok /\ Cur.st.delims # <<>>
Executing == AtTok /\ Cur.st.delims = <<>>
Below(n) == SubSeq(frames, 1, Len(frames) - n)

Abort(act, msg) ==
    /\ status' = "panic"
    /\ err' = msg
    /\ ev' = [act |-> act, pre |-> frames, out |-> out, lex |-> lex]
    /\ UNCHANGED <<frames, out, lex, twin>>

\* the executing run has taken its token: the loop goes on to the next one
\* (or into the nested run the token started), or the process has panicked
Step(act, res) ==
    IF res.err # "" THEN Abort(act, res.err)
    ELSE /\ res.call # <<>> => Len(frames) < MaxDepth
         /\ frames' = Below(1) \o <<[Cur EXCEPT !.st = res.c, !.pc = @ + 1]>> \o res.call
         /\ out' = out \o res.out
         /\ ev' = [act |-> act, pre |-> frames, out |-> out, lex |-> lex]
         /\ UNCHANGED <<status, err, lex, twin>>

\* the executing run is over: its caller goes on with res
Return(act, res) ==
    IF res.err # "" THEN Abort(act, res.err)
    ELSE /\ frames' = Below(2) \o <<[Parent EXCEPT !.st = res.c]>> \o res.call
         /\ out' = out \o res.out
         /\ ev' = [act |-> act, pre |-> frames, out |-> out, lex |-> lex]
         /\ UNCHANGED <<status, err, lex, twin>>

\* lib.rs 257-259, 269-271, 282-284
Buffer == Grouping /\ ~ClosesTop(Cur.st, Tok) /\ Step("Buffer", ExecDelim(Cur.st, Tok))
\* lib.rs 250-252, 262-264, 274-277
Close == Grouping /\ ClosesTop(Cur.st, Tok) /\ Step("Close", ExecDelim(Cur.st, Tok))
\* lib.rs 387-404
Push ==
    /\ Executing /\ Tok.t \in {"Int", "Char", "String", "Ident", "Fn", "ExtFn"}
    /\ Step("Push", Ok(push_value(Cur.st, Tok)))
\* lib.rs 328-336
Open == Executing /\ IsOpIn(Tok, Opens) /\ Step("Open", ExecOpen(Cur.st, Tok.v))
\* lib.rs 292-301
Assign == Executing /\ IsOp(Tok, "Assign") /\ Step("Assign", ExecAssign(Cur.st))
\* lib.rs 302-323
Arith ==
    /\ Executing /\ IsOpIn(Tok, BinOps)
    /\ \E checked \in BOOLEAN : Step("Arith", ExecArith(Cur.st, Tok.v, checked))
\* lib.rs 324-327
Invert == Executing /\ IsOp(Tok, "Invert") /\ Step("Invert", ExecInvert(Cur.st))
\* lib.rs 337-371
CallFn == Executing /\ IsOp(Tok, "CallFn") /\ Step("CallFn", ExecCallFn(Cur.st))
\* lib.rs 372-383
IndexArray == Executing /\ IsOp(Tok, "IndexArray") /\ Step("IndexArray", ExecIndexArray(Cur.st))
\* lib.rs 384 (the operators without an arm) and 518-521
Skip ==
    /\ Executing
    /\ \/ IsOpIn(Tok, Closes \cup {"AddAssign", "SubAssign", "MulAssign", "DivAssign"})
       \/ Tok.t \in {"Tuple", "Block", "Array", "None"}
    /\ Step("Skip", Ok(Cur.st))
\* lib.rs 407-416
Let == Executing /\ IsKw(Tok, "Let") /\ Step("Let", ExecLet(Cur.st))
\* lib.rs 417-426
Global == Executing /\ IsKw(Tok, "Global") /\ Step("Global", ExecGlobal(Cur.st))
\* lib.rs 427-447
FnDef == Executing /\ IsKw(Tok, "Fn") /\ Step("FnDef", ExecFn(Cur.st))
\* lib.rs 448-455
KwPrint ==
    /\ Executing /\ (IsKw(Tok, "Print") \/ IsKw(Tok, "PrintLn"))
    /\ Step("KwPrint", ExecPrint(Cur.st, Tok.v = "PrintLn"))
\* lib.rs 456-475
For == Executing /\ IsKw(Tok, "For") /\ Step("For", ExecFor(Cur.st))
\* lib.rs 493-515
If == Executing /\ IsKw(Tok, "If") /\ Step("If", ExecIf(Cur.st))

\* lib.rs 351-352
RetCall == AtEnd /\ Cur.ret.k = "call" /\ Return("RetCall", ExitCall(Parent.st, Cur.st))
\* lib.rs 505-509
RetIf == AtEnd /\ Cur.ret.k = "if" /\ Return("RetIf", ExitIf(Parent.st, Cur.st))
\* lib.rs 472-475
ForNext ==
    /\ AtEnd /\ Cur.ret.k = "for" /\ Cur.ret.rest # <<>>
    /\ frames' = Below(1) \o <<LoopAgain(Cur)>>
    /\ ev' = [act |-> "ForNext", pre |-> frames, out |-> out, lex |-> lex]
    /\ UNCHANGED <<out, status, err, lex, twin>>
\* lib.rs 476-478 and 491
ForExit ==
    /\ AtEnd /\ Cur.ret.k = "for" /\ Cur.ret.rest = <<>>
    /\ Return("ForExit", ExitFor(Parent.st, Cur.st))
\* lib.rs 238-240 and 277
RetArray == AtEnd /\ Cur.ret.k = "array" /\ Return("RetArray", ExitArray(Parent.st, Cur.st))
\* lib.rs 238-240 and 460-475
RetForSrc ==
    AtEnd /\ Cur.ret.k = "forsrc" /\ Return("RetForSrc", ExitForSrc(Parent.st, Cur.st, Cur.ret))
\* lib.rs 222-224 and 450 / 454
RetPrint ==
    AtEnd /\ Cur.ret.k = "print" /\ Return("RetPrint", ExitPrint(Parent.st, Cur.st, Cur.ret.nl))
\* lib.rs 523-524: the top-level run returns
Finish ==
    /\ AtEnd /\ Cur.ret.k = "top"
    /\ status' = "done"
    /\ ev' = [act |-> "Finish", pre |-> frames, out |-> out, lex |-> lex]
    /\ UNCHANGED <<frames, out, err, lex, twin>>

\* lib.rs 532-653: the tokenizer takes the next character
LexChar ==
    /\ status = "lexing" /\ lex.pos <= Len(lex.src)
    /\ LET r == LexStep(lex.l, lex.src[lex.pos])
       IN  IF r.err # ""
           THEN /\ status' = "panic"
                /\ err' = r.err
                /\ UNCHANGED lex
           ELSE /\ lex' = [lex EXCEPT !.l = r.l, !.pos = @ + 1]
                /\ UNCHANGED <<status, err>>
    /\ ev' = [act |-> "LexChar", pre |-> <<>>, out |-> out, lex |-> lex]
    /\ UNCHANGED <<frames, out, twin>>
\* lib.rs 654 and 245: tokenize returns vals, which a fresh state runs
LexReturn ==
    /\ status = "lexing" /\ lex.pos > Len(lex.src)
    /\ frames' = <<Frame(NewState(EmptyMap, EmptyMap), lex.l.vals, RetK("top"))>>
    /\ status' = "running"
    /\ ev' = [act |-> "LexReturn", pre |-> <<>>, out |-> out, lex |-> lex]
    /\ UNCHANGED <<out, err, lex, twin>>

\* lib.rs 245 with a fresh top-level state, a second time: the same call with
\* the same arguments and globals is run by a caller with other locals, and
\* the outcome of the first run is kept for comparison
Rerun ==
    /\ status \in {"done", "panic"} /\ twin.k = 0 /\ frames # <<>>
    /\ \E c1 \in IsoCallers, c2 \in IsoCallers, b \in IsoBodies :
            /\ c1 # c2
            /\ frames[1].code = c1 \o IsoCall(b)
            /\ frames' = <<Frame(NewState(EmptyMap, EmptyMap), c2 \o IsoCall(b), RetK("top"))>>
    /\ twin' = [k |-> 1, vars |-> frames[1].st.vars, out |-> out,
                globals |-> frames[1].st.globals, panic |-> status = "panic"]
    /\ out' = <<>>
    /\ status' = "running"
    /\ err' = ""
    /\ ev' = [act |-> "Rerun", pre |-> <<>>, out |-> out, lex |-> lex]
    /\ UNCHANGED lex

Next ==
    \/ Buffer \/ Close \/ Push \/ Open \/ Assign \/ Arith \/ Invert \/ CallFn
    \/ IndexArray \/ Skip \/ Let \/ Global \/ FnDef \/ KwPrint \/ For \/ If
    \/ RetCall \/ RetIf \/ ForNext \/ ForExit \/ RetArray \/ RetForSrc \/ RetPrint
    \/ Finish \/ LexChar \/ LexReturn \/ Rerun

Spec == Init /\ [][Next]_vars


(***************************************************************************)
(* The step that led to the current state                                  *)
(***************************************************************************)
Pre == ev.pre
Acted == Pre # <<>>
PreCur == Pre[Len(Pre)]
PreParent == Pre[Len(Pre) - 1]
PreTok == PreCur.code[PreCur.pc]
PreAtTok == Acted /\ PreCur.pc <= Len(PreCur.code)
PreGrouping == PreAtTok /\ PreCur.st.delims # <<>>
PreExecuting == PreAtTok /\ PreCur.st.delims = <<>>
Survived == Acted /\ status # "panic"

(***************************************************************************)
(* Proper nesting of the grouping tokens of a token sequence               *)
(***************************************************************************)
IsOpen(val) == IsOpIn(val, Opens)
IsClose(val) == IsOpIn(val, Closes)

\* the kinds of the groups open after code[1..i-1] are `open`, innermost last
RECURSIVE NestedFrom(_, _, _)
NestedFrom(code, i, open) ==
    IF i > Len(code) THEN open = <<>>
    ELSE IF IsOpen(code[i])
         THEN NestedFrom(code, i + 1, Append(open, KindOfOpen(code[i].v)))
    ELSE IF IsClose(code[i])
         THEN /\ open # <<>>
              /\ code[i].v = CloserOf(open[Len(open)])
              /\ NestedFrom(code, i + 1, SubSeq(open, 1, Len(open) - 1))
    ELSE NestedFrom(code, i + 1, open)
WellNested(code) == NestedFrom(code, 1, <<>>)

\* the index of the close that matches the open at index o of a well
\* nested sequence: the first index after o where the nesting depth is back
\* to what it was before o
RECURSIVE MatchFrom(_, _, _)
MatchFrom(code, i, depth) ==
    IF i > Len(code) THEN 0
    ELSE IF IsOpen(code[i]) THEN MatchFrom(code, i + 1, depth + 1)
    ELSE IF IsClose(code[i])
         THEN IF depth = 0 THEN i ELSE MatchFrom(code, i + 1, depth - 1)
    ELSE MatchFrom(code, i + 1, depth)
MatchOf(code, o) == MatchFrom(code, o + 1, 0)

(***************************************************************************)
(* C1.  In a properly nested token sequence, every group that run closes   *)
(* holds exactly the tokens strictly between its open and the close that   *)
(* matches that open with nesting respected: a group is never ended by the *)
(* close of a group nested inside it.  (Stated for runs whose delimiter    *)
(* frame was opened in the same pass over the slice.)                      *)
(***************************************************************************)
C1_GroupIsMatchedSpan ==
    (ev.act = "Close" /\ PreCur.ret.k # "for" /\ WellNested(PreCur.code)) =>
        LET vs == TopDelim(PreCur.st).vs
            o  == PreCur.pc - Len(vs) - 1
            m  == MatchOf(PreCur.code, o)
        IN  /\ PreCur.pc = m
            /\ vs = SubSeq(PreCur.code, o + 1, m - 1)

(***************************************************************************)
(* C8.  While the delimiter stack is non-empty, a token that is not the    *)
(* closing marker of the top frame's kind is appended unchanged to the end *)
(* of the top frame's buffer and nothing else happens: operand stack,      *)
(* locals, globals, the other delimiter frames, the depth of the delimiter *)
(* stack and the output are unchanged, no run starts or ends, and the run  *)
(* does not abort.                                                         *)
(***************************************************************************)
C8_BufferedNotExecuted ==
    (PreGrouping /\ ~ClosesTop(PreCur.st, PreTok)) =>
        LET d == Len(PreCur.st.delims)
        IN  /\ status = "running"
            /\ Len(frames) = Len(Pre)
            /\ Below(1) = SubSeq(Pre, 1, Len(Pre) - 1)
            /\ Cur.pc = PreCur.pc + 1
            /\ Cur.st.stack = PreCur.st.stack
            /\ Cur.st.vars = PreCur.st.vars
            /\ Cur.st.globals = PreCur.st.globals
            /\ Len(Cur.st.delims) = d
            /\ SubSeq(Cur.st.delims, 1, d - 1) = SubSeq(PreCur.st.delims, 1, d - 1)
            /\ Cur.st.delims[d].kind = PreCur.st.delims[d].kind
            /\ Cur.st.delims[d].vs = Append(PreCur.st.delims[d].vs, PreTok)
            /\ out = ev.out

\* an instruction that would act on the operands at hand was buffered
C8_Witness ==
    /\ PreGrouping /\ ~ClosesTop(PreCur.st, PreTok)
    /\ Len(PreCur.st.stack) >= 2
    /\ PreTok \in {O("Assign"), K("PrintLn"), O("CallFn"), O("Add")}
    /\ Cur.st.delims[1].vs # <<PreTok>>

(***************************************************************************)
(* C9.  A closing marker whose kind differs from the kind of the top       *)
(* delimiter frame aborts the run; it is never buffered or ignored.        *)
(***************************************************************************)
C9_MismatchedCloserAborts ==
    (PreGrouping /\ IsClose(PreTok) /\ ~ClosesTop(PreCur.st, PreTok)) =>
        status = "panic"

(***************************************************************************)
(* C10.  A tuple-close, block-close or array-close executed while the      *)
(* delimiter stack is empty aborts the run; it is never a silent no-op.    *)
(***************************************************************************)
C10_UnmatchedCloserAborts ==
    (PreExecuting /\ IsClose(PreTok)) => status = "panic"


\* the names a token sequence declares with let: an identifier token
\* directly followed by the let keyword
LetNames(code) ==
    {code[i].v : i \in {j \in 1..(Len(code) - 1) :
                            code[j].t = "Ident" /\ IsKw(code[j + 1], "Let")}}

NameX == <<"x">>
NameY == <<"y">>

(***************************************************************************)
(* C2.  After a for loop, or an if whose condition is nonzero, completes,  *)
(* the parent's set of local names is what it was before the instruction,  *)
(* each of those locals holds the value it had in the child when the body  *)
(* finished, and every name the body first declared with let is absent     *)
(* from the parent's local table.  (The instruction itself, popping its    *)
(* operands and starting the child, leaves the parent's locals alone.)     *)
(***************************************************************************)
C2_CopyOutMerge ==
    /\ (ev.act \in {"If", "For"} /\ Survived) =>
            frames[Len(Pre)].st.vars = PreCur.st.vars
    /\ (ev.act = "If" /\ Survived /\ Len(frames) > Len(Pre)) =>
            Cur.st.vars = PreCur.st.vars
    /\ (ev.act = "RetForSrc" /\ Survived) =>
            /\ Parent.st.vars = PreParent.st.vars
            /\ DOMAIN Cur.st.vars = DOMAIN Parent.st.vars \cup {Cur.ret.name.v}
    /\ (ev.act \in {"RetIf", "ForExit"} /\ Survived) =>
            LET before == PreParent.st.vars
                child  == PreCur.st.vars
                after  == Cur.st.vars
            IN  /\ DOMAIN after = DOMAIN before
                /\ \A n \in DOMAIN after : after[n] = child[n]
                /\ \A n \in LetNames(PreCur.code) \ DOMAIN before : n \notin DOMAIN after

\* a loop has ended whose body declared y and changed a local of the parent
C2_Witness ==
    /\ ev.act = "ForExit" /\ Survived
    /\ NameY \in LetNames(PreCur.code)
    /\ NameY \in DOMAIN PreCur.st.vars
    /\ NameY \notin DOMAIN PreParent.st.vars
    /\ \E n \in DOMAIN Cur.st.vars : Cur.st.vars[n] # PreParent.st.vars[n]

(***************************************************************************)
(* C3.  The programs  x let 1 = g global 0 = <cond> { body } if            *)
(***************************************************************************)
IfProgram(cond, body) == Prelude \o <<I(cond)>> \o InBlock(body) \o <<K("If")>>
Finished(code) == status = "done" /\ frames[1].code = code
DeclaredInside(body) == LetNames(body) \ LetNames(Prelude)

(***************************************************************************)
(* C3 as claimed.  A local declared and assigned only inside an if body is *)
(* undefined in the parent after the if when the condition is 0, and       *)
(* defined in the parent, with a value, when the condition is 1.           *)
(***************************************************************************)
C3_DefinedAfterTrueIf ==
    \A b \in IfBodies : \A n \in DeclaredInside(b) :
        /\ Finished(IfProgram(0, b)) => get_var(frames[1].st, n) = None
        /\ Finished(IfProgram(1, b)) =>
                /\ get_var(frames[1].st, n) # None
                /\ Unwrap(get_var(frames[1].st, n)) # NoneV

(***************************************************************************)
(* C3 as amended.  A local declared and assigned only inside an if body is *)
(* undefined in the parent after the if, when the condition is 0 (the body *)
(* does not run) and when it is 1 (the body runs in a child whose newly    *)
(* declared locals are discarded).  At the level of one if: no name that   *)
(* is new in the child is a local of the parent afterwards.                *)
(***************************************************************************)
C3_UndefinedAfterIf ==
    /\ \A b \in IfBodies : \A n \in DeclaredInside(b) :
        /\ Finished(IfProgram(0, b)) => get_var(frames[1].st, n) = None
        /\ Finished(IfProgram(1, b)) => get_var(frames[1].st, n) = None
    /\ (ev.act = "RetIf" /\ Survived) =>
            \A n \in DOMAIN PreCur.st.vars \ DOMAIN PreParent.st.vars :
                n \notin DOMAIN Cur.st.vars
    /\ (ev.act = "If" /\ Survived /\ Len(frames) = Len(Pre)) =>
            Cur.st.vars = PreCur.st.vars

\* the program with condition 1 and body  y let 7 =  has finished, the body
\* has run, and y is undefined
C3_Witness ==
    /\ Finished(IfProgram(1, <<Id("y"), K("Let"), I(7), O("Assign")>>))
    /\ frames[1].st.stack = <<>>
    /\ get_var(frames[1].st, NameY) = None

(***************************************************************************)
(* A user function has just been called: the step was the call             *)
(* instruction and it started the run of the body.                         *)
(***************************************************************************)
UserCalled == ev.act = "CallFn" /\ Survived /\ Len(frames) > Len(Pre)
CallerStack == PreCur.st.stack
Callee == Resolve(PreCur.st, CallerStack[Len(CallerStack)]).v
\* the operand k places below the callable (1 = pushed last before it)
ArgBelow(k) == CallerStack[Len(CallerStack) - k]
\* an operand as the caller's scope resolves it
InCallerScope(val) ==
    IF val.t # "Ident" THEN val
    ELSE IF val.v \in DOMAIN PreCur.st.vars THEN PreCur.st.vars[val.v]
    ELSE IF val.v \in DOMAIN PreCur.st.globals THEN PreCur.st.globals[val.v]
    ELSE IF val.v \in ExtFnNames THEN ExtFnV(val.v)
    ELSE val
Distinct(s) == \A i, j \in 1..Len(s) : s[i] = s[j] => i = j

(***************************************************************************)
(* C4 as claimed.  The first-declared parameter p1 is bound to the         *)
(* argument pushed most recently before the callable.                      *)
(***************************************************************************)
C4_FirstParamGetsNearest ==
    (UserCalled /\ Len(Callee.args) >= 1) =>
        Cur.st.vars[Callee.args[1]] = InCallerScope(ArgBelow(1))

(***************************************************************************)
(* C4 as amended.  The first-declared parameter p1 is bound to the         *)
(* argument pushed earliest of the n arguments, the n-th operand below the *)
(* callable, farthest from the call site.                                  *)
(***************************************************************************)
C4_FirstParamGetsFarthest ==
    (UserCalled /\ Len(Callee.args) >= 1) =>
        Cur.st.vars[Callee.args[1]] = InCallerScope(ArgBelow(Len(Callee.args)))

\* a call with at least two parameters whose nearest and farthest arguments differ
C4_Witness ==
    /\ UserCalled /\ Len(Callee.args) >= 2
    /\ InCallerScope(ArgBelow(1)) # InCallerScope(ArgBelow(Len(Callee.args)))
    /\ Cur.st.vars[Callee.args[1]] # InCallerScope(ArgBelow(1))

(***************************************************************************)
(* C5.  With arguments v1..vn pushed in that order, then the callable, a   *)
(* call of a user function with distinct parameters p1..pn pops exactly n  *)
(* operands after the callable and binds every pk to vk, identifier        *)
(* arguments resolved in the caller's scope; the child has no other local. *)
(***************************************************************************)
C5_ParamsBoundInOrder ==
    (UserCalled /\ Distinct(Callee.args)) =>
        LET n == Len(Callee.args)
            L == Len(CallerStack)
        IN  /\ Parent.st.stack = SubSeq(CallerStack, 1, L - 1 - n)
            /\ DOMAIN Cur.st.vars = {Callee.args[k] : k \in 1..n}
            /\ \A k \in 1..n :
                   Cur.st.vars[Callee.args[k]] = InCallerScope(CallerStack[L - 1 - n + k])

\* two distinct parameters, three operands beneath the callable, different
\* arguments, the first of them an identifier that is a local of the caller
C5_Witness ==
    /\ UserCalled /\ Distinct(Callee.args) /\ Len(Callee.args) = 2
    /\ Len(CallerStack) = 4
    /\ ArgBelow(2) = Id("x") /\ NameX \in DOMAIN PreCur.st.vars
    /\ Cur.st.vars[Callee.args[1]] = PreCur.st.vars[NameX]
    /\ InCallerScope(ArgBelow(1)) # InCallerScope(ArgBelow(2))
    /\ Parent.st.stack = <<CallerStack[1]>>

(***************************************************************************)
(* C6.  A call of a user function leaves every local of the caller         *)
(* unchanged, whatever the body does: the call instruction does not touch  *)
(* them, no step taken while the body runs changes the state of a          *)
(* suspended run, and the return restores none of the child's locals;      *)
(* the caller's global table after the call is the child's global table    *)
(* at the end of the body, newly declared globals included.                *)
(***************************************************************************)
C6_CallKeepsLocalsPassesGlobals ==
    /\ (ev.act = "CallFn" /\ Survived) => frames[Len(Pre)].st.vars = PreCur.st.vars
    /\ Acted => \A i \in 1..(Len(Pre) - 2) : frames[i] = Pre[i]
    /\ (Acted /\ Len(Pre) >= 2 /\ Len(frames) >= Len(Pre) /\ ev.act # "RetForSrc") =>
            frames[Len(Pre) - 1] = Pre[Len(Pre) - 1]
    /\ (ev.act = "RetCall" /\ Survived) =>
            /\ Cur.st.vars = PreParent.st.vars
            /\ Cur.st.globals = PreCur.st.globals

\* a call has returned whose body redeclared and changed a name that is a
\* local of the caller, and declared a global the caller did not have
C6_Witness ==
    /\ ev.act = "RetCall" /\ Survived
    /\ \E n \in DOMAIN PreCur.st.vars \cap DOMAIN PreParent.st.vars :
            PreCur.st.vars[n] # PreParent.st.vars[n]
    /\ PreCur.st.globals # PreParent.st.globals
    /\ Cur.st.globals = PreCur.st.globals

(***************************************************************************)
(* C7.  Fetching a value for an identifier that is in neither the local    *)
(* table, the global table nor the native-function table aborts the run:   *)
(* print, the value operand of assign, and arithmetic on such a name fail  *)
(* instead of producing a value.                                           *)
(***************************************************************************)
Undefined(c, val) ==
    /\ val.t = "Ident"
    /\ val.v \notin (DOMAIN c.vars) \cup (DOMAIN c.globals) \cup ExtFnNames
C7_UndefinedVariableAborts ==
    (/\ PreExecuting
     /\ \/ IsKw(PreTok, "Print") \/ IsKw(PreTok, "PrintLn")
        \/ IsOp(PreTok, "Assign") \/ IsOpIn(PreTok, BinOps)
     /\ PreCur.st.stack # <<>>
     /\ Undefined(PreCur.st, Top(PreCur.st))) =>
        status = "panic"

(***************************************************************************)
(* C11.  When the top-level run of a properly nested token sequence has    *)
(* processed its last token without aborting, the delimiter stack of the   *)
(* top-level context is empty.                                             *)
(***************************************************************************)
C11_DelimsEmptyAtEnd ==
    (ev.act = "Finish" /\ WellNested(frames[1].code)) =>
        frames[1].st.delims = <<>>

\* the run of a sequence with one group directly inside another has ended
C11_Witness ==
    /\ ev.act = "Finish" /\ WellNested(frames[1].code)
    /\ \E i \in 1..(Len(frames[1].code) - 1) :
            IsOpen(frames[1].code[i]) /\ IsOpen(frames[1].code[i + 1])
    /\ frames[1].st.delims = <<>>
    /\ frames[1].st.stack # <<>>

(***************************************************************************)
(* An arithmetic instruction has just been executed with at least two      *)
(* integer-valued operands on the stack: b on top, a beneath it.           *)
(***************************************************************************)
ArithCase ==
    /\ PreExecuting /\ IsOpIn(PreTok, BinOps)
    /\ Len(PreCur.st.stack) >= 2
    /\ InCallerScope(Top(PreCur.st)).t = "Int"
    /\ InCallerScope(Top(Popped(PreCur.st))).t = "Int"
ArithA == InCallerScope(Top(Popped(PreCur.st))).v
ArithB == InCallerScope(Top(PreCur.st)).v
ArithRest == SubSeq(PreCur.st.stack, 1, Len(PreCur.st.stack) - 2)
\* a op b is a 32-bit integer
InRange(o, a, b) ==
    CASE o = "Add" -> (b >= 0 => a <= MaxI32 - b) /\ (b < 0 => a >= MinI32 - b)
      [] o = "Sub" -> (b >= 0 => a >= MinI32 + b) /\ (b < 0 => a <= MaxI32 + b)
      [] o = "Mul" ->
            \/ a = 0 \/ b = 0 \/ a = 1 \/ b = 1
            \/ (a = -1 /\ b # MinI32) \/ (b = -1 /\ a # MinI32)
            \/ /\ a # MinI32 /\ b # MinI32 /\ a # -1 /\ b # -1
               /\ LET ma == IF a < 0 THEN -a ELSE a
                      mb == IF b < 0 THEN -b ELSE b
                  IN  \/ ma <= MaxI32 \div mb
                      \/ /\ (a < 0) # (b < 0)
                         /\ ma = MaxI32 \div mb + 1 /\ MaxI32 % mb = mb - 1
      [] o \in {"Div", "Mod"} -> b # 0 /\ ~(a = MinI32 /\ b = -1)
\* is r the remainder, and q the quotient, of a by b (neither 0 nor MinI32)
\* with the quotient truncated toward zero?
IsRemainder(r, a, b) ==
    /\ (a >= 0 => r >= 0) /\ (a <= 0 => r <= 0)
    /\ (IF r < 0 THEN -r ELSE r) < (IF b < 0 THEN -b ELSE b)
    /\ (a - r) % (IF b < 0 THEN -b ELSE b) = 0
IsQuotient(q, a, b) == IsRemainder(a - q * b, a, b)
\* is r the integer a op b?
IsResult(r, o, a, b) ==
    CASE o = "Add" -> r = a + b
      [] o = "Sub" -> r = a - b
      [] o = "Mul" -> r = a * b
      [] o = "Div" -> IF b = MinI32 THEN r = (IF a = MinI32 THEN 1 ELSE 0)
                      ELSE IsQuotient(r, a, b)
      [] o = "Mod" -> IF b = MinI32 THEN r = (IF a = MinI32 THEN 0 ELSE a)
                      ELSE IsRemainder(r, a, b)
ArithPushed(r) ==
    /\ status = "running"
    /\ Len(frames) = Len(Pre)
    /\ Cur.st.stack = Append(ArithRest, IntV(r))
    /\ Cur.st.vars = PreCur.st.vars
    /\ Cur.st.globals = PreCur.st.globals
    /\ out = ev.out

C13_SourceAddLeavesFive ==
    (status = "done" /\ lex.src = Src23Add) => frames[1].st.stack = <<I(5)>>

(***************************************************************************)
(* The assign instruction has just been executed with a value on top of    *)
(* the stack and an identifier token beneath it.                           *)
(***************************************************************************)
AssignCase ==
    /\ PreExecuting /\ IsOp(PreTok, "Assign")
    /\ Len(PreCur.st.stack) >= 2
    /\ Top(Popped(PreCur.st)).t = "Ident"
AssignName == Top(Popped(PreCur.st)).v
AssignValue == InCallerScope(Top(PreCur.st))

(***************************************************************************)
(* C14.  Assign pops the resolved value and then the unresolved identifier *)
(* that names the destination, and overwrites exactly one slot: the local  *)
(* of that name if there is one, otherwise the global of that name.  When  *)
(* the name is in both tables only the local changes.  Every other         *)
(* variable is unchanged.  A name in neither table aborts the run.         *)
(***************************************************************************)
C14_AssignOverwritesOneSlot ==
    AssignCase =>
        LET n  == AssignName
            vs == PreCur.st.vars
            gs == PreCur.st.globals
        IN  IF n \in DOMAIN vs
            THEN /\ status = "running"
                 /\ Cur.st.vars = [m \in DOMAIN vs |-> IF m = n THEN AssignValue ELSE vs[m]]
                 /\ Cur.st.globals = gs
                 /\ Cur.st.stack = SubSeq(PreCur.st.stack, 1, Len(PreCur.st.stack) - 2)
            ELSE IF n \in DOMAIN gs
            THEN /\ status = "running"
                 /\ Cur.st.globals = [m \in DOMAIN gs |-> IF m = n THEN AssignValue ELSE gs[m]]
                 /\ Cur.st.vars = vs
                 /\ Cur.st.stack = SubSeq(PreCur.st.stack, 1, Len(PreCur.st.stack) - 2)
            ELSE status = "panic"

\* the destination was in both tables, with a global value other than the
\* one assigned: the local has taken the value, the global has kept its own
C14_Witness ==
    /\ AssignCase
    /\ AssignName \in DOMAIN PreCur.st.vars \cap DOMAIN PreCur.st.globals
    /\ PreCur.st.globals[AssignName] # AssignValue
    /\ PreCur.st.vars[AssignName] # AssignValue
    /\ Top(PreCur.st).t = "Ident"
    /\ Cur.st.vars[AssignName] = AssignValue
    /\ Cur.st.globals[AssignName] = PreCur.st.globals[AssignName]

(***************************************************************************)
(* C15.  When the nested context of an array literal or of a printed tuple *)
(* finishes, its variables are merged into the parent: every local the     *)
(* parent already had holds the value it had in the child at the end, and  *)
(* the parent's globals are the child's.                                   *)
(***************************************************************************)
C15_EvalMergesLocals ==
    (ev.act \in {"RetArray", "RetPrint"} /\ Survived) =>
        /\ \A n \in DOMAIN PreParent.st.vars : Cur.st.vars[n] = PreCur.st.vars[n]
        /\ Cur.st.globals = PreCur.st.globals

(***************************************************************************)
(* An if instruction has just been executed with a block on top of the     *)
(* stack and a condition beneath it that is 0.                             *)
(***************************************************************************)
IfZeroCase ==
    /\ PreExecuting /\ IsKw(PreTok, "If")
    /\ Len(PreCur.st.stack) >= 2
    /\ InCallerScope(Top(PreCur.st)).t = "Block"
    /\ InCallerScope(Top(Popped(PreCur.st))) = IntV(0)

(***************************************************************************)
(* C16.  An if whose condition is 0 pops exactly its block and its         *)
(* condition and changes nothing else: no run starts for the body, nothing *)
(* is printed, the run does not abort, and the rest of the operand stack,  *)
(* the locals, the globals and the delimiter stack are what they were.     *)
(***************************************************************************)
C16_IfZeroChangesNothing ==
    IfZeroCase =>
        /\ status = "running"
        /\ Len(frames) = Len(Pre)
        /\ Below(1) = SubSeq(Pre, 1, Len(Pre) - 1)
        /\ Cur.pc = PreCur.pc + 1
        /\ Cur.code = PreCur.code
        /\ Cur.st.stack = SubSeq(PreCur.st.stack, 1, Len(PreCur.st.stack) - 2)
        /\ Cur.st.vars = PreCur.st.vars
        /\ Cur.st.globals = PreCur.st.globals
        /\ Cur.st.delims = PreCur.st.delims
        /\ out = ev.out

\* the condition was an identifier bound to 0, the body would have printed
\* and assigned, and an operand lay beneath the condition
C16_Witness ==
    /\ IfZeroCase
    /\ Top(Popped(PreCur.st)).t = "Ident"
    /\ Len(PreCur.st.stack) >= 3
    /\ \E i \in 1..Len(Top(PreCur.st).v) : IsKw(Top(PreCur.st).v[i], "PrintLn")
    /\ Cur.st.stack = <<I(7)>>
    /\ out = <<>>

(***************************************************************************)
(* C17.  The for instruction runs its body exactly once per element of the *)
(* source array, in array order: the elements the loop goes through, when  *)
(* it starts, are the elements of the array it was given.                  *)
(***************************************************************************)
C17_OncePerElement ==
    (ev.act = "RetForSrc" /\ Survived) => Cur.ret.rest = PreCur.code

(***************************************************************************)
(* A call instruction has just been executed with a native-function        *)
(* reference on top of the stack.                                          *)
(***************************************************************************)
ExtCase ==
    /\ PreExecuting /\ IsOp(PreTok, "CallFn")
    /\ PreCur.st.stack # <<>>
    /\ InCallerScope(Top(PreCur.st)).t = "ExtFn"
ExtName == InCallerScope(Top(PreCur.st)).v
ExtHasArg == Len(PreCur.st.stack) >= 2
ExtArg == IF ExtHasArg THEN InCallerScope(Top(Popped(PreCur.st))) ELSE NoneV
ExtRest ==
    IF ExtHasArg THEN SubSeq(PreCur.st.stack, 1, Len(PreCur.st.stack) - 2) ELSE <<>>

(***************************************************************************)
(* C18.  A call of a native-function reference pops the callable and then  *)
(* at most one operand, passes it (identifier resolved), or the no-value   *)
(* sentinel when the stack is empty, to the host callback, and pushes      *)
(* exactly the callback's return value; locals and globals are unchanged.  *)
(* With double registered as times two, tokens 5 double call leave exactly *)
(* 10.  (A reference to a name that is not registered aborts the run.)     *)
(***************************************************************************)
C18_NativeCall ==
    /\ ExtCase =>
        IF ExtName \in ExtFnNames
        THEN /\ status = "running"
             /\ Len(frames) = Len(Pre)
             /\ Cur.st.stack = Append(ExtRest, ExtCall(ExtName, ExtArg))
             /\ Cur.st.vars = PreCur.st.vars
             /\ Cur.st.globals = PreCur.st.globals
             /\ out = ev.out
        ELSE status = "panic"
    /\ Finished(<<I(5), IdentV(NameDouble), O("CallFn")>>) => frames[1].st.stack = <<I(10)>>

\* double was called with an identifier operand bound to an integer, above
\* another operand: the double of the integer is on the stack, the other
\* operand beneath it
C18_Witness ==
    /\ ExtCase /\ ExtHasArg
    /\ Top(Popped(PreCur.st)) = Id("x") /\ ExtArg = I(1)
    /\ Cur.st.stack = <<I(3), I(2)>>
    /\ Cur.st.vars = PreCur.st.vars

(***************************************************************************)
(* An index instruction has just been executed with an integer-valued      *)
(* index on top of the stack and an array or a string beneath it.          *)
(***************************************************************************)
IndexCase ==
    /\ PreExecuting /\ IsOp(PreTok, "IndexArray")
    /\ Len(PreCur.st.stack) >= 2
    /\ InCallerScope(Top(PreCur.st)).t = "Int"
    /\ InCallerScope(Top(Popped(PreCur.st))).t \in {"Array", "String"}
IndexI == InCallerScope(Top(PreCur.st)).v
IndexContainer == InCallerScope(Top(Popped(PreCur.st)))

(***************************************************************************)
(* C19.  Index pops an integer i and then a container; for an array of     *)
(* length n or a string of n bytes it pushes element i, a character for a  *)
(* string, when 0 <= i < n, and aborts the run for every other i, negative *)
(* ones and i = n included.  Index 1 of [10 20 30] is 20; index 3 aborts.  *)
(***************************************************************************)
C19_IndexInRangeOrAbort ==
    /\ IndexCase =>
        IF 0 <= IndexI /\ IndexI < Len(IndexContainer.v)
        THEN /\ status = "running"
             /\ Cur.st.stack =
                    Append(SubSeq(PreCur.st.stack, 1, Len(PreCur.st.stack) - 2),
                           IF IndexContainer.t = "Array" THEN IndexContainer.v[IndexI + 1]
                           ELSE CharV(IndexContainer.v[IndexI + 1]))
        ELSE status = "panic"
    /\ Finished(InArray(<<I(10), I(20), I(30)>>) \o <<I(1), O("IndexArray")>>) =>
            frames[1].st.stack = <<I(20)>>
    /\ ~Finished(InArray(<<I(10), I(20), I(30)>>) \o <<I(3), O("IndexArray")>>)

\* index 3 of an array of three elements has aborted the run
C19_Witness ==
    /\ IndexCase
    /\ IndexContainer = ArrayV(<<I(10), I(20), I(30)>>)
    /\ IndexI = 3
    /\ status = "panic"

(***************************************************************************)
(* An instruction has just been executed with enough operands on the       *)
(* stack, one of which is not of the kind the instruction requires.  (A    *)
(* for whose source is an array runs the source first; its other two       *)
(* operands are looked at when that run is over.)                          *)
(***************************************************************************)
PreOperand(k) == PreCur.st.stack[Len(PreCur.st.stack) + 1 - k]
PreResolved(k) == InCallerScope(PreOperand(k))
PreHas(n) == Len(PreCur.st.stack) >= n
WrongKindCase ==
    /\ PreExecuting
    /\ \/ /\ IsOpIn(PreTok, BinOps) /\ PreHas(2)
          /\ PreResolved(1).t # "Int" \/ PreResolved(2).t # "Int"
       \/ IsOp(PreTok, "Invert") /\ PreHas(1) /\ PreResolved(1).t # "Int"
       \/ IsOp(PreTok, "Assign") /\ PreHas(2) /\ PreOperand(2).t # "Ident"
       \/ IsOp(PreTok, "CallFn") /\ PreHas(1) /\ PreResolved(1).t \notin {"Fn", "ExtFn"}
       \/ /\ IsOp(PreTok, "IndexArray") /\ PreHas(2)
          /\ PreResolved(1).t # "Int" \/ PreResolved(2).t \notin {"Array", "String"}
       \/ /\ IsKw(PreTok, "Let") \/ IsKw(PreTok, "Global")
          /\ PreHas(1) /\ PreOperand(1).t # "Ident"
       \/ /\ IsKw(PreTok, "Fn") /\ PreHas(2)
          /\ PreResolved(1).t # "Block" \/ PreResolved(2).t # "Tuple"
       \/ IsKw(PreTok, "For") /\ PreHas(3) /\ PreResolved(3).t # "Array"
       \/ /\ IsKw(PreTok, "If") /\ PreHas(2)
          /\ PreResolved(1).t # "Block" \/ PreResolved(2).t # "Int"

(***************************************************************************)
(* C20.  Whenever an instruction pops an operand that is not of the kind   *)
(* it requires, the run aborts and the instruction has had no effect: this *)
(* holds for if with a body operand that is not a block, whatever the      *)
(* condition, and for for with a source that is not an array, a loop       *)
(* variable that is not an identifier or a body that is not a block.       *)
(***************************************************************************)
C20_WrongKindAborts ==
    /\ WrongKindCase => (status = "panic" /\ frames = Pre /\ out = ev.out)
    /\ (/\ ev.act = "RetForSrc"
        /\ PreCur.ret.name.t # "Ident" \/ PreCur.ret.block.t # "Block") =>
            (status = "panic" /\ frames = Pre /\ out = ev.out)

(***************************************************************************)
(* C21.  A compound-assignment instruction executed by run either changes  *)
(* a variable (and the operand stack) or aborts the run; it is never       *)
(* skipped with the operand stack and the variables left as they were.     *)
(***************************************************************************)
CompoundOps == {"AddAssign", "SubAssign", "MulAssign", "DivAssign"}
C21_CompoundNeverSkipped ==
    (PreExecuting /\ IsOpIn(PreTok, CompoundOps)) =>
        \/ status = "panic"
        \/ Cur.st.stack # PreCur.st.stack
        \/ Cur.st.vars # PreCur.st.vars
        \/ Cur.st.globals # PreCur.st.globals

(***************************************************************************)
(* The step that led to the current state, when it was a step of tokenize  *)
(***************************************************************************)
LexActed == ev.act = "LexChar"
PreLex == ev.lex.l
PreCh == ev.lex.src[ev.lex.pos]
\* tokenize has returned: frames[1].code is its result for the text lex.src
Lexed == ev.act = "LexReturn"
LexedAs(text, toks) == (Lexed /\ lex.src = text) => frames[1].code = toks

(***************************************************************************)
(* C22.  When one of the operators + - * / is followed by a character      *)
(* other than '=', the operator token is emitted and the character is then *)
(* processed from the idle state, so that it starts or forms its own       *)
(* token:  +3  and a space yield add then the integer 3,  -(  and a space  *)
(* yield subtract then tuple-open.                                         *)
(***************************************************************************)
C22_FollowerReprocessed ==
    /\ (/\ LexActed
        /\ PreLex.cur_val \in {O("Add"), O("Sub"), O("Mul"), O("Div")}
        /\ PreCh # "=") =>
            LET emitted == [cur_val |-> NoneV, cur_str |-> <<>>,
                            vals |-> Append(PreLex.vals, PreLex.cur_val)]
                idle == LexIdle(emitted, PreCh)
            IN  IF idle.err # "" THEN status = "panic"
                ELSE status = "lexing" /\ lex.l = idle.l
    /\ LexedAs(<<"+", "3", " ">>, <<O("Add"), I(3)>>)
    /\ LexedAs(<<"-", "(", " ">>, <<O("Sub"), O("TupleStart")>>)

(***************************************************************************)
(* The operator instructions a text should yield: one for every operator   *)
(* glyph outside a string literal, in source order, a '=' directly after   *)
(* + - * / making one compound assignment with it.  pend is the operator   *)
(* + - * / read last, if the next character can still extend it.           *)
(***************************************************************************)
RECURSIVE OpsFrom(_, _, _, _)
OpsFrom(text, i, inString, pend) ==
    LET flush == IF pend = "" THEN <<>> ELSE <<O(pend)>>
    IN  IF i > Len(text) THEN flush
        ELSE LET ch == text[i]
             IN  IF inString THEN OpsFrom(text, i + 1, ch # "\"", "")
                 ELSE IF ch = "\"" THEN flush \o OpsFrom(text, i + 1, TRUE, "")
                 ELSE IF ch = "=" /\ pend # ""
                      THEN <<O(CompoundOf(pend))>> \o OpsFrom(text, i + 1, FALSE, "")
                 ELSE IF GlyphOp(ch) \in {"Add", "Sub", "Mul", "Div"}
                      THEN flush \o OpsFrom(text, i + 1, FALSE, GlyphOp(ch))
                 ELSE IF GlyphOp(ch) # ""
                      THEN flush \o <<O(GlyphOp(ch))>> \o OpsFrom(text, i + 1, FALSE, "")
                 ELSE flush \o OpsFrom(text, i + 1, FALSE, "")
GlyphOps(text) == OpsFrom(text, 1, FALSE, "")
IsOperationTok(val) == val.t = "Operation"
IsIntTok(val) == val.t = "Int"

(***************************************************************************)
(* C23.  For every source text tokenize returns for, the operator          *)
(* instructions of the result are exactly those of the operator glyphs     *)
(* outside string literals, one for one and in source order: no glyph is   *)
(* lost because it follows a digit, an identifier character or another     *)
(* glyph, or because it is the last character of the text.                 *)
(***************************************************************************)
C23_EveryGlyphOneOperator ==
    Lexed => SelectSeq(frames[1].code, IsOperationTok) = GlyphOps(lex.src)

(***************************************************************************)
(* C24.  A character outside a string literal that is not a digit, an      *)
(* ASCII letter, a double quote, a space, a newline or an operator glyph   *)
(* makes tokenize abort, wherever it occurs: in the idle state, after a    *)
(* digit run, after an identifier, after an operator glyph.                *)
(***************************************************************************)
Unrecognized(ch) ==
    /\ ~is_numeric(ch) /\ ~is_ascii_alphabetic(ch)
    /\ ch \notin {"\"", " ", "\n"}
    /\ GlyphOp(ch) = ""
C24_UnrecognizedAborts ==
    (LexActed /\ PreLex.cur_val.t # "String" /\ Unrecognized(PreCh)) =>
        status = "panic"

(***************************************************************************)
(* C25.  When the text ends inside a string literal, tokenize reports an   *)
(* error: it does not return with the string in progress dropped.          *)
(***************************************************************************)
C25_UnterminatedStringAborts ==
    Lexed => ev.lex.l.cur_val.t # "String"

(***************************************************************************)
(* C26.  Rendering each token of a sequence of integer, string and         *)
(* identifier tokens with Display, joining the renderings with a space and *)
(* passing the text to tokenize yields the sequence again.                 *)
(***************************************************************************)
C26_DisplayRoundTrip ==
    \A toks \in RoundTripToks : LexedAs(Render(toks), toks)

(***************************************************************************)
(* The digit runs of a text that a terminating character follows, outside  *)
(* string literals and identifiers, each as its sequence of digits.        *)
(***************************************************************************)
RECURSIVE RunsFrom(_, _, _, _)
RunsFrom(text, i, mode, run) ==
    IF i > Len(text) THEN <<>>
    ELSE LET ch == text[i]
         IN  CASE mode = "string" ->
                    RunsFrom(text, i + 1, IF ch = "\"" THEN "idle" ELSE "string", <<>>)
               [] mode = "ident" ->
                    IF ch \in Digits \cup Letters THEN RunsFrom(text, i + 1, "ident", <<>>)
                    ELSE RunsFrom(text, i, "idle", <<>>)
               [] mode = "digits" ->
                    IF ch \in Digits THEN RunsFrom(text, i + 1, "digits", Append(run, ch))
                    ELSE <<run>> \o RunsFrom(text, i, "idle", <<>>)
               [] mode = "idle" ->
                    IF ch \in Digits THEN RunsFrom(text, i + 1, "digits", <<ch>>)
                    ELSE IF ch \in Letters THEN RunsFrom(text, i + 1, "ident", <<>>)
                    ELSE IF ch = "\"" THEN RunsFrom(text, i + 1, "string", <<>>)
                    ELSE RunsFrom(text, i + 1, "idle", <<>>)
DigitRuns(text) == RunsFrom(text, 1, "idle", <<>>)

\* the decimal value of a digit run exceeds 2^31 - 1
RECURSIVE StripZeros(_)
StripZeros(run) ==
    IF Len(run) > 1 /\ Head(run) = "0" THEN StripZeros(Tail(run)) ELSE run
MaxDigits == <<2, 1, 4, 7, 4, 8, 3, 6, 4, 7>>
RECURSIVE GreaterFrom(_, _)
GreaterFrom(run, i) ==
    IF i > Len(MaxDigits) THEN FALSE
    ELSE IF DigitVal(run[i]) > MaxDigits[i] THEN TRUE
    ELSE IF DigitVal(run[i]) < MaxDigits[i] THEN FALSE
    ELSE GreaterFrom(run, i + 1)
Exceeds(run) ==
    LET r == StripZeros(run)
    IN  Len(r) > Len(MaxDigits) \/ (Len(r) = Len(MaxDigits) /\ GreaterFrom(r, 1))
\* the decimal value of a digit run that does not exceed 2^31 - 1
RECURSIVE RunValue(_)
RunValue(run) ==
    IF run = <<>> THEN 0
    ELSE RunValue(SubSeq(run, 1, Len(run) - 1)) * 10 + DigitVal(run[Len(run)])

(***************************************************************************)
(* C30.  A digit run whose decimal value exceeds 2^31 - 1 makes tokenize   *)
(* abort when it is terminated, and a digit run of at most 2^31 - 1 that a *)
(* terminating character follows yields an integer token of exactly that   *)
(* value: tokenize never returns for a text with a terminated run that is  *)
(* too large, and the integer tokens of its result are the values of the   *)
(* terminated digit runs of the text, not wrapped, truncated or defaulted. *)
(***************************************************************************)
C30_DigitRunsExact ==
    /\ (LexActed /\ PreLex.cur_val.t = "Int" /\ PreCh \notin Digits) =>
            IF Exceeds(PreLex.cur_str) THEN status = "panic"
            ELSE /\ status = "lexing"
                 /\ lex.l.vals = Append(PreLex.vals, IntV(RunValue(PreLex.cur_str)))
    /\ Lexed =>
            LET runs == DigitRuns(lex.src)
            IN  /\ \A k \in 1..Len(runs) : ~Exceeds(runs[k])
                /\ SelectSeq(frames[1].code, IsIntTok) =
                        [k \in 1..Len(runs) |-> IntV(RunValue(runs[k]))]

(***************************************************************************)
(* One global table shared by every context: the table after a step is the *)
(* table the executing context had before it, changed only by the          *)
(* instruction executed: global enters a name with the value none, assign  *)
(* to a name that is not a local overwrites the entry of that name.        *)
(* Starting a nested context and returning from one do not touch it.       *)
(***************************************************************************)
SharedBefore == PreCur.st.globals
SharedAfter ==
    IF PreExecuting /\ IsKw(PreTok, "Global")
    THEN [n \in DOMAIN SharedBefore \cup {Top(PreCur.st).v} |->
            IF n = Top(PreCur.st).v THEN NoneV ELSE SharedBefore[n]]
    ELSE IF AssignCase /\ AssignName \notin DOMAIN PreCur.st.vars
                       /\ AssignName \in DOMAIN SharedBefore
    THEN [SharedBefore EXCEPT ![AssignName] = AssignValue]
    ELSE SharedBefore

(***************************************************************************)
(* C28.  Copying the global table into each nested context and copying it  *)
(* back at the context's end behaves as one table shared by all contexts:  *)
(* after every step that does not abort, the table the executing context   *)
(* sees is the single shared table, across the start and the end of        *)
(* function bodies, loop bodies, conditional bodies, array literals and     *)
(* printed tuples.  Every instruction's result is a function of the        *)
(* executing context's stack, locals and visible globals, so output,       *)
(* stacks, locals and the abort point agree with the shared-table machine. *)
(***************************************************************************)
C28_OneGlobalTable ==
    (Survived /\ frames # <<>>) => Cur.st.globals = SharedAfter

\* an array literal whose elements changed the global table has returned
C28_Witness ==
    /\ ev.act = "RetArray" /\ Survived
    /\ PreCur.st.globals # PreParent.st.globals
    /\ Cur.st.globals = PreCur.st.globals

(***************************************************************************)
(* C29.  A nested context runs to its end before its creator takes its     *)
(* next token: no step moves the position of a suspended run.  And a for   *)
(* loop performs as many iterations as its source array has elements: when *)
(* the loop starts, the number of elements it is going to bind is the      *)
(* number of elements of the array it was given.                           *)
(***************************************************************************)
C29_NestedRunsAndIterations ==
    /\ Acted => \A i \in 1..(Len(Pre) - 1) :
                    i < Len(frames) => frames[i].pc = Pre[i].pc
    /\ (ev.act = "RetForSrc" /\ Survived) => Len(Cur.ret.rest) = Len(PreCur.code)

(***************************************************************************)
(* C27.  The body of a user function cannot observe the caller's locals.   *)
(* When the same call with the same arguments and the same global table is *)
(* run by two callers that differ only in locals they do not pass, both    *)
(* runs print the same output, end with the same global table and agree on *)
(* whether they abort.  And when a body starts, its local table holds      *)
(* exactly the parameter names.                                            *)
(***************************************************************************)
BothRunsOver == twin.k = 1 /\ status \in {"done", "panic"}
C27_CallerLocalsUnobservable ==
    /\ BothRunsOver =>
            /\ out = twin.out
            /\ (status = "panic") = twin.panic
            /\ status = "done" => frames[1].st.globals = twin.globals
    /\ UserCalled => DOMAIN Cur.st.vars = {Callee.args[i] : i \in DOMAIN Callee.args}

\* two callers with different values of the local s have run a call whose
\* body names s, printed something and ended without an error
C27_Witness ==
    /\ BothRunsOver /\ status = "done" /\ ~twin.panic
    /\ <<"s">> \in DOMAIN twin.vars \cap DOMAIN frames[1].st.vars
    /\ twin.vars[<<"s">>] # frames[1].st.vars[<<"s">>]
    /\ \E i \in 1..Len(frames[1].code) : IsKw(frames[1].code[i], "Let") /\ i > 4
    /\ out # <<>> /\ out = twin.out

(***************************************************************************)
(* C31.  Evaluating an already evaluated array again is the identity: when *)
(* for has run the elements of its source array through eval_array, the    *)
(* resulting array has the same elements in the same order, also when      *)
(* elements are tuples, blocks, arrays or none.                            *)
(***************************************************************************)
C31_EvalArrayIdempotent ==
    ev.act = "RetForSrc" => PreCur.st.stack = PreCur.code

(***************************************************************************)
(* C32.  In every state of every context the delimiter stack holds at most *)
(* one frame: a grouping-open token that arrives while a frame is open is  *)
(* buffered in that frame as data and pushes no second frame.              *)
(***************************************************************************)
C32_OneDelimFrame ==
    /\ \A i \in 1..Len(frames) : Len(frames[i].st.delims) <= 1
    /\ (PreGrouping /\ IsOpen(PreTok) /\ Survived) =>
            /\ Len(Cur.st.delims) = 1
            /\ Cur.st.delims[1].vs = Append(PreCur.st.delims[1].vs, PreTok)
            /\ Cur.st.stack = PreCur.st.stack

\* an open token of another kind has been buffered in the open frame
C32_Witness ==
    /\ PreGrouping /\ IsOpen(PreTok) /\ Survived
    /\ PreCur.st.delims[1].kind # KindOfOpen(PreTok.v)
    /\ Len(Cur.st.delims) = 1
    /\ Cur.st.delims[1].vs # <<>>
    /\ Cur.st.delims[1].vs[Len(Cur.st.delims[1].vs)] = PreTok

(***************************************************************************)
(* C33.  A call of a user function with n parameters takes the callable    *)
(* and the n topmost operands below it from the caller's operand stack,    *)
(* and the caller's stack stays as that while the body runs and when it    *)
(* returns: nothing the body leaves on its own stack is transferred.  The  *)
(* same holds for if (which takes its two operands) and for (its three).   *)
(***************************************************************************)
StackLess(n) == SubSeq(PreCur.st.stack, 1, Len(PreCur.st.stack) - n)
C33_BodyStackNotTransferred ==
    /\ UserCalled => frames[Len(Pre)].st.stack = StackLess(1 + Len(Callee.args))
    /\ (ev.act = "If" /\ Survived) => frames[Len(Pre)].st.stack = StackLess(2)
    /\ (ev.act = "For" /\ Survived) => frames[Len(Pre)].st.stack = StackLess(3)
    /\ (Acted /\ Len(Pre) >= 2 /\ Len(frames) >= Len(Pre)) =>
            frames[Len(Pre) - 1].st.stack = PreParent.st.stack
    /\ (ev.act \in {"RetCall", "RetIf", "ForExit"} /\ Survived) =>
            Cur.st.stack = PreParent.st.stack

\* a call has returned whose body left operands on its own stack, to a
\* caller that had operands of its own left below the arguments
C33_Witness ==
    /\ ev.act = "RetCall" /\ Survived
    /\ PreCur.st.stack # <<>>
    /\ DOMAIN PreCur.st.vars # {}
    /\ Cur.st.stack # <<>>
    /\ Cur.st.stack = PreParent.st.stack

(***************************************************************************)
(* The loop of a for has just ended without having run its body: the       *)
(* loop's context is as it was created, its loop variable never bound.     *)
(***************************************************************************)
LoopName == PreCur.ret.name.v
EmptyLoopEnded ==
    /\ ev.act = "ForExit"
    /\ PreCur.st.stack = <<>>
    /\ PreCur.st.globals = PreParent.st.globals
    /\ DOMAIN PreCur.st.vars = DOMAIN PreParent.st.vars \cup {LoopName}
    /\ \A n \in DOMAIN PreCur.st.vars :
            PreCur.st.vars[n] = IF n = LoopName THEN NoneV ELSE PreParent.st.vars[n]

(***************************************************************************)
(* C34.  A for loop whose source array is empty runs its body zero times   *)
(* and leaves every local and every global of its parent with the value it *)
(* had before the loop, also when the loop variable has the name of a      *)
(* local of the parent.                                                    *)
(***************************************************************************)
C34_EmptyLoopChangesNothing ==
    /\ (ev.act = "RetForSrc" /\ Survived /\ PreCur.code = <<>>) =>
            Cur.ret.rest = <<>> /\ Cur.pc > Len(Cur.code)
    /\ EmptyLoopEnded =>
            /\ status # "panic"
            /\ Cur.st.vars = PreParent.st.vars
            /\ Cur.st.globals = PreParent.st.globals

====
